---- MODULE Spec2Model ----
(***************************************************************************)
(* XRP Wallet Manager: the encrypted multi-wallet store, the master        *)
(* password gate, the Send and Multi-Sig tabs and the ledger manager.      *)
(*                                                                         *)
(* Python values are modelled as follows.                                  *)
(*   None / x            the sequences <<>> and <<x>> (None, Some)         *)
(*   dict                a function whose DOMAIN is the set of keys        *)
(*   str (secret, pwd)   a record of the facts the code reads from the     *)
(*                       string: its text, its length, its padding, ...    *)
(*   an exception        the field ret of an operation's result, with the  *)
(*                       world as the statements before the raise left it  *)
(***************************************************************************)
EXTENDS Integers, Sequences, FiniteSets, TLC

VARIABLES
    mw,         \* the MultiWalletManager object (gui.py 94-108)
    fs,         \* the data directory: wallets.enc and wallets.json
    environ,    \* os.environ: WALLET_SECRET and NETWORK
    last,       \* the store call that returned last, and how it returned
    faults,     \* how many times opening wallets.enc for writing has failed
    gate,       \* ModernXRPWalletGUI start-up: the master password gate
    envl,       \* the envelope round trip: payload, passwords, position
    ms,         \* the Multi-Sig tab of the wallet workspace
    send,       \* the Send tab, its worker threads and the UI queue
    ledger,     \* one XRPWalletManager and the calls made on it
    calls,      \* a MultiWalletManager used directly: the call made last
    tools,      \* the command-line tools and the secret parser: one run
    tags,       \* the forms that take a destination tag: one submission
    recv,       \* the Receive tab: the QR cache and the fetches under way
    links,      \* the explorer links: one link built
    dec,        \* decrypt_python_wallet.py: one run of the utility
    ui,         \* the UI queue, the poll that drains it and the workers
    wk,         \* the handlers of the window and the threads they start
    dlg,        \* the Add Wallet flow: the dialog and what follows it
    signers,    \* the signer list draft of the Multi-Sig tab
    wsp         \* the wallet workspace: what it displays, and for whom

\* The parts of the program that one specification at a time looks at.
late == <<signers, wsp>>
rest == <<links, dec, ui, wk, dlg, late>>
more == <<calls, tools, tags, recv, rest>>

vars == <<mw, fs, environ, last, faults, gate, envl, ms, send, ledger, more>>

None == <<>>
Some(x) == <<x>>
Get(opt, default) == IF opt = None THEN default ELSE opt[1]

(***************************************************************************)
(* Strings the code inspects.                                              *)
(***************************************************************************)

\* A secret as typed by the user. first: the class of its leading characters
\* once trimmed ("s" a lower-case s, "ED" the letters E D in either case,
\* "hex" two other hex digits, "other" anything else, "" nothing); len: the
\* trimmed length; tailhex: every character after the first two is a hex
\* digit; lower: it holds a lower-case letter; pad: it has surrounding
\* white space; libok: xrpl's seed decoder accepts it; seedalg: the
\* algorithm the seed encodes.
SeedA == [body |-> "seedA", first |-> "s", len |-> 31, tailhex |-> FALSE,
          lower |-> TRUE, pad |-> FALSE, libok |-> TRUE, seedalg |-> "ed25519"]
SeedB == [body |-> "seedB", first |-> "s", len |-> 29, tailhex |-> FALSE,
          lower |-> TRUE, pad |-> FALSE, libok |-> TRUE, seedalg |-> "secp256k1"]
SeedBad == [body |-> "seedX", first |-> "s", len |-> 29, tailhex |-> FALSE,
            lower |-> TRUE, pad |-> FALSE, libok |-> FALSE, seedalg |-> "ed25519"]
HexKey == [body |-> "hexK", first |-> "hex", len |-> 64, tailhex |-> TRUE,
           lower |-> TRUE, pad |-> FALSE, libok |-> FALSE, seedalg |-> ""]
EdKey == [body |-> "edK", first |-> "ED", len |-> 66, tailhex |-> TRUE,
          lower |-> FALSE, pad |-> FALSE, libok |-> FALSE, seedalg |-> ""]
Junk == [body |-> "junk", first |-> "other", len |-> 12, tailhex |-> FALSE,
         lower |-> TRUE, pad |-> FALSE, libok |-> FALSE, seedalg |-> ""]
EmptyStr == [body |-> "", first |-> "", len |-> 0, tailhex |-> FALSE,
             lower |-> FALSE, pad |-> FALSE, libok |-> FALSE, seedalg |-> ""]

Padded(s) == [s EXCEPT !.pad = TRUE]
Strip(s) == [s EXCEPT !.pad = FALSE]
Upper(s) == [s EXCEPT !.lower = FALSE]

\* The secrets the callers of the store pass in.
SecretInputs == {SeedA, Padded(SeedB), SeedBad, HexKey, EdKey, Junk, EmptyStr}
\* What callers add to the store: a secret and the network chosen for it.
WalletInputs ==
    {<<Padded(SeedA), "testnet">>, <<HexKey, "mainnet">>, <<Junk, "testnet">>}

Names == {"alice", "bob"}
Networks == {"testnet", "mainnet"}

(***************************************************************************)
(* xrp_wallet.py: secrets, keys and wallets.                               *)
(***************************************************************************)

PublicKey(body, alg) == [kind |-> "pub", of |-> body, alg |-> alg]
PrivateKey(body, alg) == [kind |-> "priv", of |-> body, alg |-> alg]
\* xrpl derives the classic address from the public key.
AddressOf(pub) == [kind |-> "addr", of |-> pub.of, alg |-> pub.alg]

\* xrpl.wallet.Wallet(public_key, private_key, seed=, algorithm=)
Wallet(pub, priv, seed, alg) ==
    [public_key |-> pub, private_key |-> priv, seed |-> seed,
     algorithm |-> alg, address |-> AddressOf(pub)]

SecretInfo(secret, secret_type, alg, pub, priv) ==
    [secret |-> secret, secret_type |-> secret_type, algorithm |-> alg,
     public_key |-> pub, private_key |-> priv]

make_wallet(info) ==
    Wallet(info.public_key, info.private_key,
           IF info.secret_type = "seed" THEN Some(info.secret) ELSE None,
           info.algorithm)

HexKeyLen == 64
EdKeyLen == 66

Raise(err) == [ok |-> FALSE, err |-> err]

\* create_wallet_from_secret(secret, public_key=, algorithm_hint=): the
\* result is [ok |-> TRUE, wallet, info] or [ok |-> FALSE, err].
\* public_key is None or Some(key); algorithm_hint is None or Some(name).
create_wallet_from_secret(secret, public_key, algorithm_hint) ==
    LET candidate == Strip(secret)
        normalized == Upper(candidate)
        is_hex == normalized.first \in {"ED", "hex"} /\ normalized.tailhex
        algo_hint == Get(algorithm_hint, "")
    IN  IF secret.len = 0 /\ ~secret.pad
        THEN Raise("Secret value is empty")
        ELSE IF candidate.len > 0 /\ candidate.first = "s"
        THEN IF candidate.libok
             THEN LET alg == candidate.seedalg
                      pub == PublicKey(candidate.body, alg)
                      priv == PrivateKey(candidate.body, alg)
                  IN  [ok |-> TRUE,
                       wallet |-> Wallet(pub, priv, Some(candidate), alg),
                       info |-> SecretInfo(candidate, "seed", alg, pub, priv)]
             ELSE Raise("Invalid XRP seed")
        ELSE IF normalized.first = "ED" /\ normalized.len = EdKeyLen
                /\ normalized.tailhex
        THEN LET pub == Get(public_key, PublicKey(normalized.body, "ed25519"))
                 priv == PrivateKey(normalized.body, "ed25519")
             IN  [ok |-> TRUE,
                  wallet |-> Wallet(pub, priv, None, "ed25519"),
                  info |-> SecretInfo(normalized, "private_key", "ed25519",
                                      pub, priv)]
        ELSE IF is_hex /\ normalized.len = HexKeyLen
        THEN IF algo_hint = "ed25519"
             THEN Raise("Secret marked as ed25519 but lacks the ED prefix")
             ELSE LET pub == Get(public_key,
                                 PublicKey(normalized.body, "secp256k1"))
                      priv == PrivateKey(normalized.body, "secp256k1")
                  IN  [ok |-> TRUE,
                       wallet |-> Wallet(pub, priv, None, "secp256k1"),
                       info |-> SecretInfo(normalized, "private_key",
                                           "secp256k1", pub, priv)]
        ELSE Raise("Unrecognized secret format")

\* XRPWalletManager.setup_client: the endpoint chosen by network.
ClientUrl(network) ==
    IF network = "mainnet" THEN "MAINNET_URL" ELSE "TESTNET_URL"

\* XRPWalletManager(network=, auto_load_env=False) followed by use_wallet.
Manager(network, wallet, info) ==
    [network |-> network, client |-> ClientUrl(network),
     wallet |-> Some(wallet), secret_info |-> Some(info)]

(***************************************************************************)
(* gui.py: the envelope encryption of MultiWalletManager.                  *)
(***************************************************************************)

\* A password as entered: its text, the length of the text once trimmed and
\* whether it carries surrounding white space (one character of it).
PwA == [text |-> "pwA", len |-> 8, pad |-> FALSE]
PwB == [text |-> "pwB", len |-> 9, pad |-> FALSE]
PwShort == [text |-> "pwS", len |-> 7, pad |-> FALSE]
Passwords == {PwA, Padded(PwA), PwB, PwShort, Padded(PwShort)}
RawLen(p) == p.len + (IF p.pad THEN 1 ELSE 0)

MinPasswordLen == 8
KdfIterations == 390000

\* secrets.token_bytes(16), for the salt and for the nonce.
Salts == {"salt1", "salt2"}
Nonces == {"nonce1"}

\* hashlib.pbkdf2_hmac(...)[:32] and [32:], as an injective function of its
\* inputs.
DeriveKeys(password, salt, iterations) ==
    [enc |-> [part |-> "enc", pw |-> password, salt |-> salt, it |-> iterations],
     mac |-> [part |-> "mac", pw |-> password, salt |-> salt, it |-> iterations]]

\* The bytes of a text are a document and one mask per 32-byte block: the
\* set of key stream blocks XORed onto the block (empty for plain text).
\* XOR with a key stream block toggles its membership: it is its own inverse.
Xor(mask, ks) == (mask \ {ks}) \cup ({ks} \ mask)

\* _stream_cipher(key, nonce, data): block i is XORed with
\* HMAC(key, nonce + counter), the counter starting at 0.
StreamCipher(key, nonce, data) ==
    [doc |-> data.doc,
     masks |-> [i \in 1..Len(data.masks) |->
                  Xor(data.masks[i],
                      [key |-> key, nonce |-> nonce, counter |-> i - 1])]]

\* json.dumps(payload).encode("utf-8"): the text grows with the number of
\* wallets and contacts.
NBlocks(payload) ==
    1 + Cardinality(DOMAIN payload.wallets) + Len(payload.address_book)
JsonDumps(payload) ==
    [doc |-> payload, masks |-> [i \in 1..NBlocks(payload) |-> {}]]
\* json.loads(plaintext.decode("utf-8")): fails unless the bytes are text.
JsonLoads(data) ==
    IF \A i \in 1..Len(data.masks) : data.masks[i] = {}
    THEN [ok |-> TRUE, payload |-> data.doc]
    ELSE [ok |-> FALSE, payload |-> data.doc]

\* hmac.new(mac_key, nonce + ciphertext, sha256).digest()
Hmac(mac_key, nonce, ciphertext) ==
    [key |-> mac_key, nonce |-> nonce, ct |-> ciphertext]

B64Encode(x) == [b64 |-> x]
B64Decode(y) == y.b64

\* _encrypt_payload(payload) with self.password and self.kdf_iterations;
\* salt and nonce are the two random draws.
EncryptPayload(payload, password, iterations, salt, nonce) ==
    LET keys == DeriveKeys(password, salt, iterations)
        ciphertext == StreamCipher(keys.enc, nonce, JsonDumps(payload))
        mac == Hmac(keys.mac, nonce, ciphertext)
    IN  [version |-> 1,
         salt |-> B64Encode(salt),
         kdf |-> [name |-> "pbkdf2_sha256", iterations |-> iterations],
         nonce |-> B64Encode(nonce),
         mac |-> B64Encode(mac),
         ciphertext |-> B64Encode(ciphertext)]

\* Mutant: the stored MAC is not compared.
DecryptEnvelopeNoMac(envelope, password) ==
    LET iterations == envelope.kdf.iterations
        nonce == B64Decode(envelope.nonce)
        keys == DeriveKeys(password, B64Decode(envelope.salt), iterations)
        loaded == JsonLoads(StreamCipher(keys.enc, nonce,
                                         B64Decode(envelope.ciphertext)))
    IN  IF ~loaded.ok
        THEN [ok |-> FALSE, why |-> "json", payload |-> None,
              iterations |-> iterations]
        ELSE [ok |-> TRUE, why |-> "", payload |-> Some(loaded.payload),
              iterations |-> iterations]

\* _load_encrypted_store up to json.loads: the MAC is compared before the
\* cipher runs. [ok, why, payload, iterations]
DecryptEnvelope(envelope, password) ==
    LET salt == B64Decode(envelope.salt)
        iterations == envelope.kdf.iterations
        nonce == B64Decode(envelope.nonce)
        ciphertext == B64Decode(envelope.ciphertext)
        mac == B64Decode(envelope.mac)
        keys == DeriveKeys(password, salt, iterations)
        expected_mac == Hmac(keys.mac, nonce, ciphertext)
        loaded == JsonLoads(StreamCipher(keys.enc, nonce, ciphertext))
    IN  IF mac # expected_mac
        THEN [ok |-> FALSE, why |-> "mac", payload |-> None,
              iterations |-> iterations]
        ELSE IF ~loaded.ok
        THEN [ok |-> FALSE, why |-> "json", payload |-> None,
              iterations |-> iterations]
        ELSE [ok |-> TRUE, why |-> "", payload |-> Some(loaded.payload),
              iterations |-> iterations]

(***************************************************************************)
(* gui.py: WalletData and MultiWalletManager.                              *)
(***************************************************************************)

\* WalletData.__init__ and the address assigned by the caller.
WalletData(name, info, network, secret_type, address, balance) ==
    [name |-> name, secret |-> info.secret, secret_type |-> secret_type,
     public_key |-> info.public_key, algorithm |-> info.algorithm,
     network |-> network, address |-> address, balance |-> balance,
     is_active |-> FALSE]

\* WalletData.to_record, with public_key and algorithm overwritten from
\* the cached SecretInfo by save_wallets. A record field is None when the
\* key is missing from the JSON object.
ToRecord(wallet, info) ==
    [name |-> Some(wallet.name), network |-> Some(wallet.network),
     address |-> Some(wallet.address), secret |-> Some(wallet.secret),
     secret_type |-> Some(wallet.secret_type),
     public_key |-> Some(info.public_key),
     algorithm |-> Some(info.algorithm), balance |-> Some(wallet.balance)]

\* MultiWalletManager.__init__
NewManager ==
    [wallets |-> <<>>, secret_cache |-> <<>>, active_wallet |-> None,
     wallet_managers |-> <<>>, address_book |-> <<>>, password |-> None,
     kdf_iterations |-> KdfIterations, initialized |-> FALSE]

NewEnviron == [WALLET_SECRET |-> None, NETWORK |-> None]

Put(f, k, v) == [x \in DOMAIN f \cup {k} |-> IF x = k THEN v ELSE f[x]]
Pop(f, k) == [x \in DOMAIN f \ {k} |-> f[x]]

\* ensure_initialized does not raise
IsInitialized(m) == m.initialized /\ m.password # None

\* The world an operation runs in, and what it returns: ret is "True",
\* "False", "None" or the exception raised; why tells the failures apart.
World(m, f, e) == [mw |-> m, fs |-> f, env |-> e]
Ret(w, ret, why) == [w |-> w, ret |-> ret, why |-> why]

\* _load_from_payload(payload): [mw, env]
LoadFromPayload(m, env, payload) ==
    LET Parsed(name) ==
            LET record == payload.wallets[name]
            IN  create_wallet_from_secret(Get(record.secret, EmptyStr),
                                          record.public_key, record.algorithm)
        kept == {name \in DOMAIN payload.wallets :
                    /\ Get(payload.wallets[name].secret, EmptyStr).len > 0
                    /\ Parsed(name).ok}
        Data(name) ==
            LET record == payload.wallets[name]
                p == Parsed(name)
                network == Get(record.network, "testnet")
            IN  WalletData(name, p.info, network,
                           Get(record.secret_type, p.info.secret_type),
                           Get(record.address, p.wallet.address),
                           Get(record.balance, "0"))
        active == IF payload.active_wallet # None
                     /\ payload.active_wallet[1] \in kept
                  THEN payload.active_wallet ELSE None
        wallets == [name \in kept |->
                      [Data(name) EXCEPT !.is_active = (active = Some(name))]]
    IN  [mw |-> [m EXCEPT
                   !.wallets = wallets,
                   !.secret_cache = [name \in kept |-> Parsed(name).info],
                   !.wallet_managers =
                       [name \in kept |->
                          Manager(wallets[name].network, Parsed(name).wallet,
                                  Parsed(name).info)],
                   !.active_wallet = active,
                   !.address_book = payload.address_book],
         env |-> IF active = None THEN env
                 ELSE [WALLET_SECRET |-> Some(wallets[active[1]].secret),
                       NETWORK |-> Some(wallets[active[1]].network)]]

\* Mutant: self.password is assigned before the MAC has been compared.
LoadEncryptedStorePasswordFirst(w, password) ==
    LET d == DecryptEnvelope(w.fs.enc[1], password)
        m0 == [w.mw EXCEPT !.password = Some(password)]
        m1 == [m0 EXCEPT !.kdf_iterations = d.iterations, !.initialized = TRUE]
        l == LoadFromPayload(m1, w.env, d.payload[1])
    IN  IF ~d.ok THEN Ret(World(m0, w.fs, w.env), "ValueError", d.why)
        ELSE Ret(World(l.mw, w.fs, l.env), "None", "")

\* _load_encrypted_store(password)
LoadEncryptedStore(w, password) ==
    LET d == DecryptEnvelope(w.fs.enc[1], password)
        m1 == [w.mw EXCEPT !.password = Some(password),
                           !.kdf_iterations = d.iterations,
                           !.initialized = TRUE]
        l == LoadFromPayload(m1, w.env, d.payload[1])
    IN  IF ~d.ok THEN Ret(w, "ValueError", d.why)
        ELSE Ret(World(l.mw, w.fs, l.env), "None", "")

\* The names whose SecretInfo save_wallets has to rebuild, and whether it can.
Uncached(m) == DOMAIN m.wallets \ DOMAIN m.secret_cache
Rebuilt(m, name) ==
    create_wallet_from_secret(m.wallets[name].secret,
                              Some(m.wallets[name].public_key),
                              Some(m.wallets[name].algorithm))

\* Mutant: the payload is built without the active wallet.
BuildPayloadNoActive(m) ==
    [wallets |-> [name \in DOMAIN m.wallets |->
                    ToRecord(m.wallets[name], m.secret_cache[name])],
     active_wallet |-> None,
     address_book |-> m.address_book]

\* The payload save_wallets builds.
BuildPayload(m) ==
    [wallets |-> [name \in DOMAIN m.wallets |->
                    ToRecord(m.wallets[name],
                             IF name \in DOMAIN m.secret_cache
                             THEN m.secret_cache[name]
                             ELSE Rebuilt(m, name).info)],
     active_wallet |-> m.active_wallet,
     address_book |-> m.address_book]

\* save_wallets(): io_ok tells whether wallets.enc can be opened for
\* writing; salt and nonce are the random draws of _encrypt_payload.
SaveWallets(w, io_ok, salt, nonce) ==
    LET m == w.mw
        m1 == [m EXCEPT !.secret_cache =
                 [name \in DOMAIN m.wallets |->
                    IF name \in DOMAIN m.secret_cache
                    THEN m.secret_cache[name] ELSE Rebuilt(m, name).info]]
        envelope == EncryptPayload(BuildPayload(m), m.password[1],
                                   m.kdf_iterations, salt, nonce)
    IN  IF ~IsInitialized(m) THEN Ret(w, "RuntimeError", "not initialized")
        ELSE IF \E name \in Uncached(m) : ~Rebuilt(m, name).ok
        THEN Ret(w, "ValueError", "secret")
        ELSE IF ~io_ok THEN Ret(World(m1, w.fs, w.env), "OSError", "open")
        ELSE Ret(World(m1, [enc |-> Some(envelope), legacy |-> None], w.env),
                 "None", "")

\* _load_legacy_store(): the legacy file is unlinked in the finally clause.
LoadLegacyStore(w) ==
    LET l == LoadFromPayload(w.mw, w.env, w.fs.legacy[1])
    IN  World(l.mw, [w.fs EXCEPT !.legacy = None], l.env)

\* initialize(password)
Initialize(w, password_in, io_ok, salt, nonce) ==
    LET password == Strip(password_in)
        m1 == [w.mw EXCEPT !.password = Some(password), !.initialized = TRUE]
        w1 == World(m1, w.fs, w.env)
        w2 == IF w.fs.legacy # None THEN LoadLegacyStore(w1) ELSE w1
    IN  IF password.len < MinPasswordLen THEN Ret(w, "ValueError", "short")
        ELSE IF w.mw.initialized
        THEN Ret(World([w.mw EXCEPT !.password = Some(password)], w.fs, w.env),
                 "None", "")
        ELSE IF w.fs.enc # None THEN LoadEncryptedStore(w, password)
        ELSE SaveWallets(w2, io_ok, salt, nonce)

\* get_or_create_manager(name) for a stored name: [ok, mw]
GetOrCreateManager(m, name) ==
    LET wallet_data == m.wallets[name]
        cached == name \in DOMAIN m.secret_cache
        p == Rebuilt(m, name)
        info == IF cached THEN m.secret_cache[name] ELSE p.info
        wallet == IF cached THEN make_wallet(info) ELSE p.wallet
    IN  IF ~cached /\ ~p.ok THEN [ok |-> FALSE, mw |-> m]
        ELSE [ok |-> TRUE,
              mw |-> [m EXCEPT
                        !.secret_cache = Put(m.secret_cache, name, info),
                        !.wallet_managers =
                            Put(m.wallet_managers, name,
                                Manager(wallet_data.network, wallet, info))]]

\* add_wallet(name, secret, network, secret_info): secret_info is None or
\* Some(SecretInfo).
AddWallet(w, name, secret, network, secret_info, io_ok, salt, nonce) ==
    LET p == create_wallet_from_secret(secret, None, None)
        info == IF secret_info = None THEN p.info ELSE secret_info[1]
        wallet == IF secret_info = None THEN p.wallet ELSE make_wallet(info)
        wallet_data == WalletData(name, info, network, info.secret_type,
                                  wallet.address, "0")
        m1 == [w.mw EXCEPT
                 !.wallets = Put(w.mw.wallets, name, wallet_data),
                 !.wallet_managers = Put(w.mw.wallet_managers, name,
                                         Manager(network, wallet, info)),
                 !.secret_cache = Put(w.mw.secret_cache, name, info)]
        saved == SaveWallets(World(m1, w.fs, w.env), io_ok, salt, nonce)
    IN  IF ~IsInitialized(w.mw) THEN Ret(w, "RuntimeError", "not initialized")
        ELSE IF secret_info = None /\ ~p.ok THEN Ret(w, "False", "secret")
        ELSE IF saved.ret # "None" THEN Ret(saved.w, "False", "save")
        ELSE Ret(saved.w, "True", "")

\* Mutant: the active-wallet pointer is not cleared.
RemoveWalletKeepsActive(w, name, io_ok, salt, nonce) ==
    LET m == w.mw
        m1 == [m EXCEPT
                 !.secret_cache = Pop(m.secret_cache, name),
                 !.wallet_managers = Pop(m.wallet_managers, name),
                 !.wallets = Pop(m.wallets, name)]
        saved == SaveWallets(World(m1, w.fs, w.env), io_ok, salt, nonce)
    IN  IF ~IsInitialized(m) THEN Ret(w, "RuntimeError", "not initialized")
        ELSE IF name \notin DOMAIN m.wallets THEN Ret(w, "False", "")
        ELSE IF saved.ret # "None" THEN saved
        ELSE Ret(saved.w, "True", "")

\* remove_wallet(name)
RemoveWallet(w, name, io_ok, salt, nonce) ==
    LET m == w.mw
        m1 == [m EXCEPT
                 !.active_wallet = IF m.active_wallet = Some(name)
                                   THEN None ELSE m.active_wallet,
                 !.secret_cache = Pop(m.secret_cache, name),
                 !.wallet_managers = Pop(m.wallet_managers, name),
                 !.wallets = Pop(m.wallets, name)]
        saved == SaveWallets(World(m1, w.fs, w.env), io_ok, salt, nonce)
    IN  IF ~IsInitialized(m) THEN Ret(w, "RuntimeError", "not initialized")
        ELSE IF name \notin DOMAIN m.wallets THEN Ret(w, "False", "")
        ELSE IF saved.ret # "None" THEN saved
        ELSE Ret(saved.w, "True", "")

\* set_active_wallet(name)
SetActiveWallet(w, name, io_ok, salt, nonce) ==
    LET m == w.mw
        m1 == [m EXCEPT
                 !.active_wallet = Some(name),
                 !.wallets = [n \in DOMAIN m.wallets |->
                                [m.wallets[n] EXCEPT !.is_active = (n = name)]]]
        g == GetOrCreateManager(m1, name)
        env1 == [WALLET_SECRET |-> Some(m.wallets[name].secret),
                 NETWORK |-> Some(m.wallets[name].network)]
        saved == SaveWallets(World(g.mw, w.fs, env1), io_ok, salt, nonce)
    IN  IF ~IsInitialized(m) THEN Ret(w, "RuntimeError", "not initialized")
        ELSE IF name \notin DOMAIN m.wallets THEN Ret(w, "False", "")
        ELSE IF ~g.ok THEN Ret(World(m1, w.fs, w.env), "ValueError", "secret")
        ELSE IF saved.ret # "None" THEN saved
        ELSE Ret(saved.w, "True", "")

\* A contact as entered: three strings, with or without surrounding white
\* space; the stored entry holds them trimmed.
Contact(label, tag, pad) ==
    [label |-> label, address |-> "rDest", destination_tag |-> tag, pad |-> pad]
ContactInputs == {Contact("carol", "", TRUE), Contact("dave", "7", FALSE)}
MaxContacts == 2

\* Mutant: the index may equal the length of the list.
AddOrUpdateContactInclusive(w, contact, index, io_ok, salt, nonce) ==
    LET entry == Strip(contact)
        book == w.mw.address_book
        book1 == IF index # None /\ 0 <= index[1] /\ index[1] <= Len(book)
                 THEN [book EXCEPT ![index[1] + 1] = entry]
                 ELSE Append(book, entry)
    IN  SaveWallets(World([w.mw EXCEPT !.address_book = book1], w.fs, w.env),
                    io_ok, salt, nonce)

\* add_or_update_contact(label, address, destination_tag, index): index is
\* None or Some(i).
AddOrUpdateContact(w, contact, index, io_ok, salt, nonce) ==
    LET entry == Strip(contact)
        book == w.mw.address_book
        book1 == IF index # None /\ 0 <= index[1] /\ index[1] < Len(book)
                 THEN [book EXCEPT ![index[1] + 1] = entry]
                 ELSE Append(book, entry)
    IN  SaveWallets(World([w.mw EXCEPT !.address_book = book1], w.fs, w.env),
                    io_ok, salt, nonce)

\* del self.address_book[index]
DeleteAt(book, index) ==
    [i \in 1..(Len(book) - 1) |-> IF i <= index THEN book[i] ELSE book[i + 1]]

\* remove_contact(index)
RemoveContact(w, index, io_ok, salt, nonce) ==
    IF 0 <= index /\ index < Len(w.mw.address_book)
    THEN SaveWallets(World([w.mw EXCEPT
                              !.address_book = DeleteAt(w.mw.address_book, index)],
                           w.fs, w.env),
                     io_ok, salt, nonce)
    ELSE Ret(w, "None", "")

(***************************************************************************)
(* gui.py: the application. ModernXRPWalletGUI.__init__ runs the master    *)
(* password gate; once it has returned True the main loop dispatches the   *)
(* handlers of the wallet screens, which call the store.                   *)
(***************************************************************************)

TheWorld == World(mw, fs, environ)

\* The inputs of a save: whether wallets.enc can be opened for writing, and
\* the two random draws. Here the data directory stays writable.
Inputs == {<<TRUE, salt, nonce>> : salt \in {"salt1"}, nonce \in {"nonce1"}}
IoFailed(r) == r.why \in {"open", "save"}

Commit(r) ==
    /\ mw' = r.w.mw
    /\ fs' = r.w.fs
    /\ environ' = r.w.env
    /\ last' = [ret |-> r.ret, why |-> r.why]
    /\ faults' = IF IoFailed(r) THEN faults + 1 ELSE faults

\* What an earlier session left in the data directory: nothing, a legacy
\* plaintext file, or a store encrypted under PwA.
StoredWallet(name, secret, network) ==
    LET p == create_wallet_from_secret(secret, None, None)
    IN  ToRecord(WalletData(name, p.info, network, p.info.secret_type,
                            p.wallet.address, "0"), p.info)
LegacyRecord(secret) ==
    [name |-> None, network |-> None, address |-> None,
     secret |-> Some(secret), secret_type |-> None, public_key |-> None,
     algorithm |-> None, balance |-> None]
EmptyDoc == [wallets |-> <<>>, active_wallet |-> None, address_book |-> <<>>]
AliceDoc ==
    [wallets |-> [n \in {"alice"} |-> StoredWallet("alice", SeedA, "testnet")],
     active_wallet |-> Some("alice"), address_book |-> <<>>]
LegacyDoc ==
    [wallets |-> [n \in Names |->
                    IF n = "alice" THEN LegacyRecord(HexKey)
                    ELSE LegacyRecord(Junk)],
     active_wallet |-> Some("bob"), address_book |-> <<>>]
InitialDirs ==
    {[enc |-> None, legacy |-> None], [enc |-> None, legacy |-> Some(LegacyDoc)]}
    \cup {[enc |-> Some(EncryptPayload(doc, PwA, KdfIterations, "salt0", "nonce0")),
           legacy |-> None] : doc \in {EmptyDoc, AliceDoc}}

NoCall == [ret |-> "", why |-> ""]

EnvlIdle == [pc |-> "off"]
MsIdle == [pc |-> "off"]
SendIdle == [pc |-> "off"]
LedgerIdle == [pc |-> "off"]
\* The parts a specification leaves out are not running.
Off == [pc |-> "off"]
LateIdle == signers = Off /\ wsp = Off
RestIdle ==
    links = Off /\ dec = Off /\ ui = Off /\ wk = Off /\ dlg = Off /\ LateIdle
MoreIdle ==
    calls = Off /\ tools = Off /\ tags = Off /\ recv = Off /\ RestIdle

\* prompt_for_master_password, lines 510-513: which loop the gate enters.
MaxAttempts == 5
StartGate(dir) ==
    IF dir.enc # None
    THEN [pc |-> "unlock", attempts_remaining |-> MaxAttempts, rejected |-> 0]
    ELSE [pc |-> "create", attempts_remaining |-> 0, rejected |-> 0]

\* PasswordDialog.__init__ calls grab_set: while the dialog is open the
\* widgets of the root window receive no events.
DialogGrab(pc) == pc \in {"unlock", "create"}
\* An event loop is running (wait_window inside the gate, then mainloop).
EventLoop(pc) == pc \in {"unlock", "create", "main"}
\* The handlers of the wallet screens can be invoked.
UiEnabled == EventLoop(gate.pc) /\ ~DialogGrab(gate.pc)

StoreInit ==
    /\ mw = NewManager
    /\ fs \in InitialDirs
    /\ environ = NewEnviron
    /\ last = NoCall
    /\ faults = 0
    /\ gate = StartGate(fs)
    /\ envl = EnvlIdle
    /\ ms = MsIdle /\ send = SendIdle /\ ledger = LedgerIdle
    /\ MoreIdle

OtherThanStore == <<envl, ms, send, ledger, more>>

\* prompt_for_master_password has returned True and its locals are gone.
GatePassed == [pc |-> "main", attempts_remaining |-> 0, rejected |-> 0]

\* Mutant: the loop runs while attempts_remaining >= 0.
AfterRejectOffByOne(g) ==
    [pc |-> IF g.attempts_remaining - 1 >= 0 THEN "unlock" ELSE "exit",
     attempts_remaining |-> g.attempts_remaining - 1,
     rejected |-> g.rejected + 1]

\* One pass of the unlock loop with a password entered: PasswordDialog.save
\* returns it trimmed, initialize accepts or raises ValueError.
AfterReject(g) ==
    [pc |-> IF g.attempts_remaining - 1 > 0 THEN "unlock" ELSE "exit",
     attempts_remaining |-> g.attempts_remaining - 1,
     rejected |-> g.rejected + 1]

GateUnlockSubmit ==
    /\ gate.pc = "unlock"
    /\ \E password \in Passwords, in \in Inputs :
        LET r == Initialize(TheWorld, Strip(password), in[1], in[2], in[3])
        IN  /\ Commit(r)
            /\ gate' = IF r.ret = "None" THEN GatePassed
                       ELSE IF r.ret = "ValueError" THEN AfterReject(gate)
                       ELSE [gate EXCEPT !.pc = "exit"]
            /\ UNCHANGED OtherThanStore

\* The dialog is dismissed: password is None, askyesno decides.
GateUnlockDismiss ==
    /\ gate.pc = "unlock"
    /\ \E exit \in BOOLEAN :
        gate' = IF exit THEN [gate EXCEPT !.pc = "exit"] ELSE gate
    /\ UNCHANGED <<mw, fs, environ, last, faults, envl, ms, send, ledger, more>>

\* One pass of the create loop with a password entered.
GateCreateSubmit ==
    /\ gate.pc = "create"
    /\ \E password \in Passwords, in \in Inputs :
        LET r == Initialize(TheWorld, Strip(password), in[1], in[2], in[3])
        IN  IF Strip(password).len < MinPasswordLen
            THEN UNCHANGED vars
            ELSE /\ Commit(r)
                 /\ gate' = IF r.ret = "None" THEN GatePassed
                            ELSE IF r.ret = "ValueError" THEN gate
                            ELSE [gate EXCEPT !.pc = "exit"]
                 /\ UNCHANGED OtherThanStore

GateCreateDismiss ==
    /\ gate.pc = "create"
    /\ \E exit \in BOOLEAN :
        gate' = IF exit THEN [gate EXCEPT !.pc = "exit"] ELSE gate
    /\ UNCHANGED <<mw, fs, environ, last, faults, envl, ms, send, ledger, more>>

CallAddWallet ==
    /\ UiEnabled
    /\ \E name \in Names, input \in WalletInputs, with_info \in BOOLEAN,
          in \in Inputs :
        LET p == create_wallet_from_secret(input[1], None, None)
        IN  /\ with_info => p.ok
            /\ Commit(AddWallet(TheWorld, name, input[1], input[2],
                                IF with_info THEN Some(p.info) ELSE None,
                                in[1], in[2], in[3]))
            /\ UNCHANGED <<gate, envl, ms, send, ledger, more>>

CallRemoveWallet ==
    /\ UiEnabled
    /\ \E name \in Names, in \in Inputs :
        /\ Commit(RemoveWallet(TheWorld, name, in[1], in[2], in[3]))
        /\ UNCHANGED <<gate, envl, ms, send, ledger, more>>

CallSetActiveWallet ==
    /\ UiEnabled
    /\ \E name \in Names, in \in Inputs :
        /\ Commit(SetActiveWallet(TheWorld, name, in[1], in[2], in[3]))
        /\ UNCHANGED <<gate, envl, ms, send, ledger, more>>

CallAddOrUpdateContact ==
    /\ UiEnabled
    /\ \E contact \in ContactInputs, in \in Inputs,
          index \in {None} \cup {Some(i) : i \in -1..MaxContacts} :
        /\ \/ Len(mw.address_book) < MaxContacts
           \/ index # None /\ 0 <= index[1] /\ index[1] < Len(mw.address_book)
        /\ Commit(AddOrUpdateContact(TheWorld, contact, index,
                                     in[1], in[2], in[3]))
        /\ UNCHANGED <<gate, envl, ms, send, ledger, more>>

CallRemoveContact ==
    /\ UiEnabled
    /\ \E index \in -1..MaxContacts, in \in Inputs :
        /\ Commit(RemoveContact(TheWorld, index, in[1], in[2], in[3]))
        /\ UNCHANGED <<gate, envl, ms, send, ledger, more>>

\* The process ends (the gate returned False, or the window is closed) and
\* the application is started again on the same data directory.
Restart ==
    /\ gate.pc \in {"main", "exit"}
    /\ mw' = NewManager
    /\ environ' = NewEnviron
    /\ last' = NoCall
    /\ gate' = StartGate(fs)
    /\ UNCHANGED <<fs, faults, envl, ms, send, ledger, more>>

StoreNext ==
    \/ GateUnlockSubmit
    \/ GateUnlockDismiss
    \/ GateCreateSubmit
    \/ GateCreateDismiss
    \/ CallAddWallet
    \/ CallRemoveWallet
    \/ CallSetActiveWallet
    \/ CallAddOrUpdateContact
    \/ CallRemoveContact
    \/ Restart

Spec == StoreInit /\ [][StoreNext]_vars

(***************************************************************************)
(* Properties of the gate and the store.                                   *)
(***************************************************************************)

\* C1: with a store on disk the gate lets at most 5 passwords be rejected;
\* attempts are consumed by rejections only (a dismissed prompt that does
\* not exit consumes none); after the fifth rejection the gate has returned
\* False and the store is not initialized; the gate has returned True
\* exactly when a password has been accepted, and no handler of the wallet
\* screens runs before that (it would fail as not initialized).
C1_GateBudget ==
    /\ gate.rejected <= 5
    /\ gate.pc = "unlock" =>
          gate.attempts_remaining + gate.rejected = 5 /\ ~mw.initialized
    /\ gate.rejected = 5 => gate.pc = "exit" /\ ~mw.initialized
    /\ gate.pc = "main" <=> mw.initialized
    /\ UiEnabled => IsInitialized(mw)
    /\ last.ret # "RuntimeError"

\* The fifth password has been rejected and the gate has returned False.
C1_Witness == gate.pc = "exit" /\ gate.rejected = 5 /\ last.ret = "ValueError"

\* C2: a call of initialize that is rejected because the MAC recomputed from
\* the password differs from the stored MAC leaves the manager (initialized,
\* password, wallets, active wallet, address book), the environment and the
\* files on disk as they were.
C2_MacMismatchChangesNothing ==
    [][last'.why = "mac" => mw' = mw /\ fs' = fs /\ environ' = environ]_vars

\* A store exists and a password has just been rejected on its MAC.
C2_Witness ==
    /\ last = [ret |-> "ValueError", why |-> "mac"]
    /\ fs.enc # None /\ ~mw.initialized /\ mw.password = None

\* What re-opening the store from disk with a password yields.
Reopen(password) ==
    LoadEncryptedStore(World(NewManager, fs, NewEnviron), password)
\* The part of the manager the user sees of the stored data.
StoreView(m) ==
    [wallets |-> [n \in DOMAIN m.wallets |->
                    [secret |-> m.wallets[n].secret,
                     network |-> m.wallets[n].network,
                     address |-> m.wallets[n].address]],
     active_wallet |-> m.active_wallet,
     address_book |-> m.address_book]

\* C3: when a store call has returned successfully on an initialized store,
\* re-opening the store from disk with the same password yields the wallet
\* names in memory, each with the same secret, network and address, the
\* same active wallet and the same address book in the same order.
C3_ReopenYieldsMemory ==
    (mw.initialized /\ last.ret \in {"True", "None"}) =>
        /\ fs.enc # None
        /\ Reopen(mw.password[1]).ret = "None"
        /\ StoreView(Reopen(mw.password[1]).w.mw) = StoreView(mw)

\* Two wallets, one of them active, and two different contacts are stored.
C3_Witness ==
    /\ mw.initialized /\ last.ret = "True"
    /\ DOMAIN mw.wallets = Names
    /\ mw.active_wallet = Some("bob")
    /\ mw.wallets["alice"].secret # mw.wallets["bob"].secret
    /\ Len(mw.address_book) = 2
    /\ mw.address_book[1] # mw.address_book[2]

\* C10: is_active is true for exactly the wallet named by active_wallet,
\* and for no wallet when active_wallet is absent.
C10_ExactlyActiveFlagged ==
    \A n \in DOMAIN mw.wallets :
        mw.wallets[n].is_active <=> (mw.active_wallet = Some(n))

(***************************************************************************)
(* The envelope round trip: a payload is encrypted by _encrypt_payload     *)
(* under the password of an initialized manager, the process ends, and a   *)
(* new manager is given a password to unlock the file with.                *)
(***************************************************************************)

ContactsDoc ==
    [wallets |-> [n \in Names |->
                    IF n = "alice" THEN StoredWallet("alice", SeedA, "testnet")
                    ELSE StoredWallet("bob", HexKey, "mainnet")],
     active_wallet |-> None,
     address_book |-> <<Strip(Contact("carol", "", FALSE))>>]
Payloads == {EmptyDoc, AliceDoc, LegacyDoc, ContactsDoc}

EnvelopeInit ==
    /\ mw = NewManager
    /\ fs = [enc |-> None, legacy |-> None]
    /\ environ = NewEnviron
    /\ last = NoCall
    /\ faults = 0
    /\ gate = [pc |-> "off"]
    /\ envl \in {[pc |-> "new", payload |-> payload, saved_as |-> password,
                  tried |-> password] :
                    payload \in Payloads,
                    password \in {p \in Passwords : RawLen(p) >= MinPasswordLen}}
    /\ ms = MsIdle /\ send = SendIdle /\ ledger = LedgerIdle
    /\ MoreIdle

OtherThanEnvelope == <<gate, ms, send, ledger, more>>

\* initialize(W) in an empty data directory.
EnvCreate ==
    /\ envl.pc = "new"
    /\ \E salt \in Salts, nonce \in Nonces :
        LET r == Initialize(TheWorld, envl.saved_as, TRUE, salt, nonce)
        IN  /\ Commit(r)
            /\ envl' = [envl EXCEPT !.pc = IF r.ret = "None" THEN "created"
                                            ELSE "new"]
    /\ UNCHANGED OtherThanEnvelope

\* _encrypt_payload(P), written to wallets.enc as save_wallets writes it.
EnvSave ==
    /\ envl.pc = "created"
    /\ \E salt \in Salts, nonce \in Nonces :
        fs' = [fs EXCEPT !.enc =
                 Some(EncryptPayload(envl.payload, mw.password[1],
                                     mw.kdf_iterations, salt, nonce))]
    /\ envl' = [envl EXCEPT !.pc = "saved"]
    /\ UNCHANGED <<mw, environ, last, faults, gate, ms, send, ledger, more>>

\* The process ends; the next one starts with MultiWalletManager().
EnvClose ==
    /\ envl.pc \in {"saved", "tried"}
    /\ mw' = NewManager
    /\ environ' = NewEnviron
    /\ last' = NoCall
    /\ envl' = [envl EXCEPT !.pc = "closed"]
    /\ UNCHANGED <<fs, faults, gate, ms, send, ledger, more>>

\* initialize(W') on the new manager.
EnvUnlock ==
    /\ envl.pc \in {"closed", "tried"}
    /\ ~mw.initialized
    /\ \E password \in Passwords, salt \in Salts, nonce \in Nonces :
        /\ Commit(Initialize(TheWorld, password, TRUE, salt, nonce))
        /\ envl' = [envl EXCEPT !.pc = "tried", !.tried = password]
    /\ UNCHANGED OtherThanEnvelope

EnvelopeNext ==
    \/ EnvCreate
    \/ EnvSave
    \/ EnvClose
    \/ EnvUnlock

SpecEnvelope == EnvelopeInit /\ [][EnvelopeNext]_vars

\* The unlock was accepted and the manager holds what the payload P holds.
EnvUnlockedWithP ==
    /\ last = [ret |-> "None", why |-> ""]
    /\ mw.initialized
    /\ DecryptEnvelope(fs.enc[1], mw.password[1]).payload = Some(envl.payload)
    /\ mw = LoadFromPayload([NewManager EXCEPT !.password = mw.password,
                                               !.initialized = TRUE],
                            NewEnviron, envl.payload).mw
\* The unlock was rejected as an authentication failure: nothing of the
\* payload is in the manager and the manager is not initialized.
EnvRejected ==
    /\ last = [ret |-> "ValueError", why |-> "mac"]
    /\ mw = NewManager

\* C4 (as written): for passwords W, W' of at least 8 characters, a store
\* saved with P under W and unlocked with W yields P, and unlocking it
\* with any W' different from W is rejected as an authentication failure.
C4_AnyOtherPasswordRejected ==
    (/\ envl.pc = "tried"
     /\ RawLen(envl.saved_as) >= 8 /\ RawLen(envl.tried) >= 8) =>
        /\ envl.tried = envl.saved_as => EnvUnlockedWithP
        /\ envl.tried # envl.saved_as => EnvRejected

\* C4 (amended): for passwords W, W' that have at least 8 characters once
\* surrounding white space is trimmed, a store saved with P under W and
\* unlocked with W' yields P when the trimmed W' equals the trimmed W, and
\* is rejected as an authentication failure, with nothing loaded and the
\* store not initialized, when the trimmed passwords differ.
C4_TrimmedPasswordDecides ==
    (/\ envl.pc = "tried"
     /\ Strip(envl.saved_as).len >= 8 /\ Strip(envl.tried).len >= 8) =>
        /\ Strip(envl.tried) = Strip(envl.saved_as) => EnvUnlockedWithP
        /\ Strip(envl.tried) # Strip(envl.saved_as) => EnvRejected

\* A store holding wallets was unlocked with a password that differs from
\* the one it was saved under by surrounding white space only.
C4_Witness ==
    /\ envl.pc = "tried"
    /\ envl.tried # envl.saved_as
    /\ Strip(envl.tried) = Strip(envl.saved_as)
    /\ envl.payload = ContactsDoc
    /\ EnvUnlockedWithP

(***************************************************************************)
(* gui.py: the Multi-Sig tab of the wallet workspace. The store has been   *)
(* unlocked and holds two wallets; the welcome screen selects a wallet and *)
(* opens the workspace, whose Multi-Sig tab reads the signer list of the   *)
(* active wallet from the ledger. A test wallet generated by a worker      *)
(* thread is named and added by a callback taken from the UI queue.        *)
(***************************************************************************)

AddrA == create_wallet_from_secret(SeedA, None, None).wallet.address
AddrH == create_wallet_from_secret(HexKey, None, None).wallet.address
AddrT == create_wallet_from_secret(SeedB, None, None).wallet.address
ExtSigner == [kind |-> "addr", of |-> "ext", alg |-> "ed25519"]

\* What get_signer_list returns; {'enabled': False} has no quorum and no
\* signers, which its readers default to nothing.
SignerEntry(account, weight) == [account |-> account, weight |-> weight]
NotEnabled == [enabled |-> FALSE, quorum |-> 0, signers |-> <<>>]
ListEqual ==
    [enabled |-> TRUE, quorum |-> 2,
     signers |-> <<SignerEntry(AddrH, 1), SignerEntry(ExtSigner, 1)>>]
ListWeighted ==
    [enabled |-> TRUE, quorum |-> 2,
     signers |-> <<SignerEntry(AddrH, 2), SignerEntry(ExtSigner, 1)>>]
SignerLists == {NotEnabled, ListEqual, ListWeighted}

\* The signer list object the ledger holds for an account: only the
\* account of SeedA ever has one.
OnLedger(g, account) == IF account = AddrA THEN g.onledger ELSE NotEnabled

\* get_signer_list(): reachable tells whether the request succeeds.
GetSignerList(g, manager, reachable) ==
    IF manager.wallet = None THEN NotEnabled
    ELSE IF ~reachable THEN NotEnabled
    ELSE OnLedger(g, manager.wallet[1].address)

\* get_active_manager()
GetActiveManager(m) ==
    IF m.active_wallet # None /\ m.active_wallet[1] \in DOMAIN m.wallet_managers
    THEN Some(m.wallet_managers[m.active_wallet[1]])
    ELSE None

\* "if not manager or not manager.wallet"
NoWallet(manager) == manager = None \/ manager[1].wallet = None

\* What a handler leaves behind for the properties to read: the message
\* box it showed, whether it created a session, whether it left the session
\* as it was, whether it called submit_multisig_transaction, and (ghosts)
\* whether the status it read belonged to the account of the active
\* wallet and whether the collected weight had reached the quorum.
Out(op, msg) ==
    [op |-> op, msg |-> msg, created |-> FALSE, kept |-> TRUE,
     handed |-> FALSE, fresh |-> FALSE, met |-> FALSE]
NoOut == Out("", "")

\* refresh_multisig_status(): status_for is a ghost, the account read.
RefreshMultisigStatus(g, m, reachable) ==
    LET manager == GetActiveManager(m)
    IN  IF NoWallet(manager) THEN g
        ELSE [g EXCEPT !.status = GetSignerList(g, manager[1], reachable),
                       !.status_for = Some(manager[1].wallet[1].address)]

\* The entries of the transaction form, as the handler tests them.
StartsWithR == {"rDest", "rShort", "rMin", "rBelow", "rLong"}
IsDigit == {"0", "1", "7", "4294967295", "4294967296"}
IsDecimal == {"1"}
Forms ==
    {[destination |-> d, amount |-> a, tag |-> t] :
        d \in {"rDest", "xDest", ""}, a \in {"1", "abc", ""}, t \in {"", "x"}}

\* prepare_payment_transaction: the unsigned payment of the wallet.
PreparePaymentTransaction(manager, form) ==
    [Account |-> manager.wallet[1].address, Destination |-> form.destination,
     Amount |-> form.amount, DestinationTag |-> form.tag]

\* prepare_multisig_transaction_action()
PrepareMultisigTransactionAction(g, m, form) ==
    LET manager == GetActiveManager(m)
        Blocked(msg) == [g EXCEPT !.out = Out("prepare", msg)]
    IN  IF NoWallet(manager) THEN Blocked("Select a wallet first")
        ELSE IF ~g.status.enabled
        THEN Blocked("Enable a signer list before preparing a transaction")
        ELSE IF form.tag # "" /\ form.tag \notin IsDigit
        THEN Blocked("Destination tag must be a number")
        ELSE IF form.destination = "" \/ form.destination \notin StartsWithR
        THEN Blocked("Enter a valid destination address")
        ELSE IF form.amount = "" THEN Blocked("Enter an amount in XRP")
        ELSE IF form.amount \notin IsDecimal
        THEN Blocked("Failed to prepare transaction")
        ELSE [g EXCEPT
                !.session =
                    Some([tx_json |-> PreparePaymentTransaction(manager[1], form),
                          signatures |-> {},
                          required_signers |-> g.status.signers,
                          quorum |-> g.status.quorum]),
                !.out = [Out("prepare", "") EXCEPT
                           !.created = TRUE,
                           !.kept = FALSE,
                           !.fresh = /\ g.status.enabled
                                     /\ g.status_for =
                                          Some(manager[1].wallet[1].address)]]

\* sign_as_active_wallet(): signed tells whether sign_multisig_transaction
\* succeeds.
SignAsActiveWallet(g, m, signed) ==
    LET manager == GetActiveManager(m)
    IN  IF NoWallet(manager)
        THEN [g EXCEPT !.out = Out("sign", "Select a wallet first")]
        ELSE IF g.session = None
        THEN [g EXCEPT !.out = Out("sign", "Prepare a transaction first")]
        ELSE IF ~signed THEN [g EXCEPT !.out = Out("sign", "Failed to sign")]
        ELSE [g EXCEPT
                !.session = Some([g.session[1] EXCEPT !.signatures =
                                    @ \cup {manager[1].wallet[1].address}]),
                !.out = [Out("sign", "") EXCEPT !.kept = FALSE]]

\* import_signed_package(): package is None when the file dialog is
\* cancelled, else the signer named in the file (None when it names none).
ImportSignedPackage(g, package) ==
    IF g.session = None
    THEN [g EXCEPT !.out = Out("import", "Prepare a transaction first")]
    ELSE IF package = None THEN [g EXCEPT !.out = Out("import", "")]
    ELSE IF package[1] = None
    THEN [g EXCEPT !.out = Out("import", "Failed to import signature")]
    ELSE [g EXCEPT
            !.session = Some([g.session[1] EXCEPT !.signatures =
                                @ \cup {package[1][1]}]),
            !.out = [Out("import", "") EXCEPT !.kept = FALSE]]

\* update_multisig_signing_table(): the collected weight it displays.
RECURSIVE CollectedUpTo(_, _)
CollectedUpTo(session, n) ==
    IF n = 0 THEN 0
    ELSE CollectedUpTo(session, n - 1)
         + (IF session.required_signers[n].account \in session.signatures
            THEN session.required_signers[n].weight ELSE 0)
Collected(session) == CollectedUpTo(session, Len(session.required_signers))

\* "len(signatures) < quorum" is false
EnoughSignatures(session) == Cardinality(session.signatures) >= session.quorum

\* copy_signing_request(): the request goes to the clipboard, which is
\* outside the state kept here; the status line is recorded.
CopySigningRequest(g) ==
    IF g.session = None
    THEN [g EXCEPT !.out = Out("copy", "Prepare a transaction first")]
    ELSE [g EXCEPT !.out = Out("copy", "Signing request copied")]

\* save_signing_request(): file is None when the file dialog is cancelled,
\* else tells whether the file can be written; open() raising leaves the
\* handler by the exception.
SaveSigningRequest(g, file) ==
    IF g.session = None
    THEN [g EXCEPT !.out = Out("save", "Prepare a transaction first")]
    ELSE IF file = None THEN [g EXCEPT !.out = Out("save", "")]
    ELSE IF ~file[1] THEN [g EXCEPT !.out = Out("save", "raised")]
    ELSE [g EXCEPT !.out = Out("save", "Signing request saved")]

\* Mutant: the session is dropped whatever the submission reports.
SubmitMultisigTransactionActionDropsSession(g, m, accepted) ==
    LET manager == GetActiveManager(m)
        session == g.session[1]
    IN  IF NoWallet(manager)
        THEN [g EXCEPT !.out = Out("submit", "Select a wallet first")]
        ELSE IF g.session = None
        THEN [g EXCEPT !.out = Out("submit", "Prepare a transaction first")]
        ELSE IF ~EnoughSignatures(session)
        THEN [g EXCEPT !.out = [Out("submit",
                                    "Not enough signatures collected yet")
                                EXCEPT !.met = Collected(session)
                                                 >= session.quorum]]
        ELSE [g EXCEPT !.session = None,
                       !.out = [Out("submit", IF accepted THEN "Transaction submitted"
                                              ELSE "Failed to submit") EXCEPT
                                  !.handed = TRUE,
                                  !.kept = ~accepted,
                                  !.met = Collected(session) >= session.quorum]]

\* submit_multisig_transaction_action(): accepted tells whether
\* submit_multisig_transaction reports success.
SubmitMultisigTransactionAction(g, m, accepted) ==
    LET manager == GetActiveManager(m)
        session == g.session[1]
        handed == [Out("submit", IF accepted THEN "Transaction submitted"
                                  ELSE "Failed to submit") EXCEPT
                     !.handed = TRUE,
                     !.kept = ~accepted,
                     !.met = Collected(session) >= session.quorum]
    IN  IF NoWallet(manager)
        THEN [g EXCEPT !.out = Out("submit", "Select a wallet first")]
        ELSE IF g.session = None
        THEN [g EXCEPT !.out = Out("submit", "Prepare a transaction first")]
        ELSE IF ~EnoughSignatures(session)
        THEN [g EXCEPT !.out = [Out("submit",
                                    "Not enough signatures collected yet")
                                EXCEPT !.met = Collected(session)
                                                 >= session.quorum]]
        ELSE [g EXCEPT !.session = IF accepted THEN None ELSE @,
                       !.out = handed]

TwoWalletsDoc ==
    [wallets |-> [n \in Names |->
                    IF n = "alice" THEN StoredWallet("alice", SeedA, "testnet")
                    ELSE StoredWallet("bob", HexKey, "mainnet")],
     active_wallet |-> None, address_book |-> <<>>]
TwoWalletsDir ==
    [enc |-> Some(EncryptPayload(TwoWalletsDoc, PwA, KdfIterations,
                                 "salt0", "nonce0")),
     legacy |-> None]
Unlocked(dir) == LoadEncryptedStore(World(NewManager, dir, NewEnviron), PwA).w

\* ModernXRPWalletGUI.__init__, lines 492-494, once the gate has passed.
MultisigInit ==
    /\ mw = Unlocked(TwoWalletsDir).mw
    /\ fs = TwoWalletsDir
    /\ environ = Unlocked(TwoWalletsDir).env
    /\ last = NoCall
    /\ faults = 0
    /\ gate = GatePassed
    /\ envl = EnvlIdle
    /\ ms = [screen |-> "welcome", worker |-> "idle",
             onledger |-> NotEnabled, status |-> NotEnabled,
             status_for |-> None, session |-> None, out |-> NoOut]
    /\ send = SendIdle /\ ledger = LedgerIdle
    /\ MoreIdle

OtherThanMultisig == <<faults, gate, envl, send, ledger, more>>
StoreUnchanged == UNCHANGED <<mw, fs, environ, last>>

\* select_wallet(name): set_active_wallet, then open_wallet_interface, whose
\* create_multisig_tab ends with refresh_multisig_status.
MsSelectWallet ==
    /\ ms.screen = "welcome"
    /\ \E name \in DOMAIN mw.wallets, in \in Inputs, reachable \in BOOLEAN :
        LET r == SetActiveWallet(TheWorld, name, in[1], in[2], in[3])
        IN  /\ Commit(r)
            /\ ms' = IF r.ret = "True"
                     THEN RefreshMultisigStatus(
                              [ms EXCEPT !.screen = "workspace", !.out = NoOut],
                              r.w.mw, reachable)
                     ELSE ms
    /\ UNCHANGED <<gate, envl, send, ledger, more>>

\* "Back to Wallets": setup_welcome_screen destroys the workspace.
MsBackToWallets ==
    /\ ms.screen = "workspace"
    /\ ms' = [ms EXCEPT !.screen = "welcome", !.out = NoOut]
    /\ StoreUnchanged
    /\ UNCHANGED OtherThanMultisig

\* generate_test_wallet_dialog: the worker generates a wallet and puts
\* ask_name into the UI queue.
MsGenerateTestWallet ==
    /\ ms.screen = "welcome"
    /\ ms.worker = "idle"
    /\ ms' = [ms EXCEPT !.worker = "queued"]
    /\ StoreUnchanged
    /\ UNCHANGED OtherThanMultisig

\* _process_ui_queue runs ask_name: the name is asked for and, unless the
\* dialog is cancelled, add_wallet stores the generated wallet under it.
MsAskName ==
    /\ ms.worker = "queued"
    /\ \E name \in {"alice", ""}, in \in Inputs :
        LET generated == create_wallet_from_secret(SeedB, None, None)
        IN  IF name = ""
            THEN StoreUnchanged /\ faults' = faults
            ELSE Commit(AddWallet(TheWorld, name, generated.info.secret,
                                  "testnet", Some(generated.info),
                                  in[1], in[2], in[3]))
    /\ ms' = [ms EXCEPT !.worker = "idle"]
    /\ UNCHANGED <<gate, envl, send, ledger, more>>

\* A validated SignerListSet changes the signer list of the account.
MsLedgerChange ==
    /\ \E list \in SignerLists \ {ms.onledger} :
        ms' = [ms EXCEPT !.onledger = list]
    /\ StoreUnchanged
    /\ UNCHANGED OtherThanMultisig

MsRefresh ==
    /\ ms.screen = "workspace"
    /\ \E reachable \in BOOLEAN :
        ms' = RefreshMultisigStatus(ms, mw, reachable)
    /\ StoreUnchanged
    /\ UNCHANGED OtherThanMultisig

MsPrepare ==
    /\ ms.screen = "workspace"
    /\ \E form \in Forms :
        ms' = PrepareMultisigTransactionAction(ms, mw, form)
    /\ StoreUnchanged
    /\ UNCHANGED OtherThanMultisig

MsSign ==
    /\ ms.screen = "workspace"
    /\ \E signed \in BOOLEAN : ms' = SignAsActiveWallet(ms, mw, signed)
    /\ StoreUnchanged
    /\ UNCHANGED OtherThanMultisig

MsImport ==
    /\ ms.screen = "workspace"
    /\ \E package \in {None, Some(None), Some(Some(ExtSigner))} :
        ms' = ImportSignedPackage(ms, package)
    /\ StoreUnchanged
    /\ UNCHANGED OtherThanMultisig

MsSubmit ==
    /\ ms.screen = "workspace"
    /\ \E accepted \in BOOLEAN :
        ms' = SubmitMultisigTransactionAction(ms, mw, accepted)
    /\ StoreUnchanged
    /\ UNCHANGED OtherThanMultisig

MsCopySigningRequest ==
    /\ ms.screen = "workspace"
    /\ ms' = CopySigningRequest(ms)
    /\ StoreUnchanged
    /\ UNCHANGED OtherThanMultisig

MsSaveSigningRequest ==
    /\ ms.screen = "workspace"
    /\ \E file \in {None, Some(TRUE), Some(FALSE)} :
        ms' = SaveSigningRequest(ms, file)
    /\ StoreUnchanged
    /\ UNCHANGED OtherThanMultisig

MultisigNext ==
    \/ MsSelectWallet
    \/ MsBackToWallets
    \/ MsGenerateTestWallet
    \/ MsAskName
    \/ MsLedgerChange
    \/ MsRefresh
    \/ MsPrepare
    \/ MsSign
    \/ MsImport
    \/ MsSubmit
    \/ MsCopySigningRequest
    \/ MsSaveSigningRequest

SpecMultisig == MultisigInit /\ [][MultisigNext]_vars

\* C5: submit_multisig_transaction_action hands the signatures to
\* submit_multisig_transaction only when the summed weight of the session's
\* required signers that have a collected signature has reached the
\* quorum; otherwise it shows a message, hands nothing over and leaves the
\* session as it was.
C5_SubmitNeedsQuorumWeight ==
    ms.out.op = "submit" =>
        /\ ms.out.handed => ms.out.met
        /\ ~ms.out.met => ~ms.out.handed /\ ms.out.msg # "" /\ ms.out.kept

\* C6: prepare_multisig_transaction_action creates a session only when the
\* signer-list status most recently read from the ledger was read for the
\* account of the active wallet and is enabled; otherwise it shows a
\* message and leaves the session as it was.
C6_PrepareNeedsEnabledStatus ==
    ms.out.op = "prepare" =>
        /\ ms.out.created => ms.out.fresh
        /\ ~ms.out.created => ms.out.msg # "" /\ ms.out.kept

(***************************************************************************)
(* xrp_wallet.py: XRPWalletManager, the operations that talk to the        *)
(* ledger. How each request ends is an input of the operation.             *)
(***************************************************************************)

\* XRPWalletManager(network=..., auto_load_env=False)
NewLedgerManager(network) ==
    [network |-> network, client |-> ClientUrl(network),
     wallet |-> None, secret_info |-> None]

\* load_wallet_from_secret(secret)
LoadWalletFromSecret(manager, secret) ==
    LET p == create_wallet_from_secret(secret, None, None)
    IN  IF p.ok
        THEN [manager EXCEPT !.wallet = Some(p.wallet),
                             !.secret_info = Some(p.info)]
        ELSE manager

\* client.request and submit_and_wait: a successful response, an
\* unsuccessful one, or an exception.
Responses == {"ok", "unsuccessful", "raises"}

\* How a call ends: kind is "value", "error" (a result that carries an
\* error) or "raised"; requests are the requests it sent, in order.
Result(kind, what, requests) ==
    [kind |-> kind, what |-> what, requests |-> requests]

\* get_account_info(address): address is None or Some(address).
GetAccountInfo(manager, address, response) ==
    IF address = None /\ manager.wallet = None
    THEN Result("raised", "AttributeError", <<>>)
    ELSE IF response = "ok"
    THEN Result("value", "account_data", <<"account_info">>)
    ELSE Result("error", response, <<"account_info">>)

\* get_balance(address)
GetBalance(manager, address, response) ==
    LET account_info == GetAccountInfo(manager, address, response)
    IN  IF account_info.kind = "raised" THEN account_info
        ELSE IF account_info.kind = "error"
        THEN Result("error", "Error: ", account_info.requests)
        ELSE Result("value", "balance", account_info.requests)

\* The history providers answer with entries, with none, or raise.
ProviderResponses == {"entries", "empty", "raises"}

\* _fetch_history_fallback: None, or Some(result).
\* Mutant: the error of the first provider that raised is kept.
FetchHistoryFallbackFirstError(manager, xrpscan, rippledata) ==
    IF manager.network # "mainnet" THEN None
    ELSE IF xrpscan = "entries"
    THEN Some(Result("value", "xrpscan", <<"xrpscan">>))
    ELSE IF rippledata = "entries"
    THEN Some(Result("value", "rippledata", <<"xrpscan", "rippledata">>))
    ELSE IF xrpscan = "raises"
    THEN Some(Result("error", "xrpscan raises", <<"xrpscan", "rippledata">>))
    ELSE IF rippledata = "raises"
    THEN Some(Result("error", "rippledata raises",
                     <<"xrpscan", "rippledata">>))
    ELSE None

\* The providers are tried in the order of the list; last_error is the text
\* of the last exception.
FetchHistoryFallback(manager, xrpscan, rippledata) ==
    IF manager.network # "mainnet" THEN None
    ELSE IF xrpscan = "entries"
    THEN Some(Result("value", "xrpscan", <<"xrpscan">>))
    ELSE IF rippledata = "entries"
    THEN Some(Result("value", "rippledata", <<"xrpscan", "rippledata">>))
    ELSE IF rippledata = "raises"
    THEN Some(Result("error", "rippledata raises",
                     <<"xrpscan", "rippledata">>))
    ELSE IF xrpscan = "raises"
    THEN Some(Result("error", "xrpscan raises", <<"xrpscan", "rippledata">>))
    ELSE None

\* account_tx answers with transactions, with none, with a last entry that
\* has no 'tx', unsuccessfully, or the request raises.
HistoryResponses ==
    {"transactions", "empty", "headless", "unsuccessful", "raises"}

\* The entries of the answer to account_tx: the 'tx' body of an entry, None
\* for an entry without one.
MaxTxs == 2
TxEntries == {None, Some("t1"), Some("t2")}
TxLists == UNION {[1..n -> TxEntries] : n \in 0..MaxTxs}
Transactions(response) ==
    CASE response = "transactions"
            -> {l \in TxLists : l # <<>> /\ l[Len(l)] # None}
      [] response = "headless"
            -> {l \in TxLists : l # <<>> /\ l[Len(l)] = None}
      [] OTHER -> {<<>>}

\* Lines 314-342: the loop keeps tx_data of the entry it read last and the
\* one append that follows it builds the record of that entry.
AppendedAfterLoop(transactions) ==
    <<[hash |-> transactions[Len(transactions)][1]]>>

\* get_transaction_history(address): the record is appended after the loop,
\* from the last entry; with no entry, or a last entry without 'tx', the
\* append raises inside the try block.
GetTransactionHistory(manager, address, response, transactions, xrpscan, rippledata) ==
    LET fallback == FetchHistoryFallback(manager, xrpscan, rippledata)
        OrFallback(what) ==
            IF fallback # None
            THEN [fallback[1] EXCEPT !.requests = <<"account_tx">> \o @]
            ELSE Result("error", what, <<"account_tx">>)
    IN  IF address = None /\ manager.wallet = None
        THEN Result("raised", "AttributeError", <<>>)
        ELSE IF response = "transactions"
        THEN Result("value", "last transaction", <<"account_tx">>)
                @@ [records |-> AppendedAfterLoop(transactions)]
        ELSE OrFallback(response)

\* Mutant: an unsuccessful submission is submitted again.
SendPaymentRetrying(manager, amount, sequence, signing, submission) ==
    LET account_info == GetAccountInfo(manager, None, sequence)
    IN  IF manager.wallet = None THEN Result("error", "No wallet loaded", <<>>)
        ELSE IF amount \notin IsDecimal
        THEN Result("error", "InvalidOperation", <<>>)
        ELSE IF account_info.kind = "error"
        THEN Result("error", "Cannot get sequence", account_info.requests)
        ELSE IF signing # "ok"
        THEN Result("error", signing, <<"account_info", "autofill">>)
        ELSE IF submission = "ok"
        THEN Result("value", "success", <<"account_info", "autofill", "submit">>)
        ELSE Result("error", submission,
                    <<"account_info", "autofill", "submit", "submit">>)

\* send_payment(destination, amount, memo, destination_tag): sequence is the
\* response to get_account_info, signing how autofill_and_sign ends,
\* submission how submit_and_wait ends.
SendPayment(manager, amount, sequence, signing, submission) ==
    LET account_info == GetAccountInfo(manager, None, sequence)
    IN  IF manager.wallet = None THEN Result("error", "No wallet loaded", <<>>)
        ELSE IF amount \notin IsDecimal
        THEN Result("error", "InvalidOperation", <<>>)
        ELSE IF account_info.kind = "error"
        THEN Result("error", "Cannot get sequence", account_info.requests)
        ELSE IF signing # "ok"
        THEN Result("error", signing, <<"account_info", "autofill">>)
        ELSE IF submission = "ok"
        THEN Result("value", "success", <<"account_info", "autofill", "submit">>)
        ELSE Result("error", submission,
                    <<"account_info", "autofill", "submit">>)

\* create_multisig_wallet(signers, quorum)
CreateMultisigWallet(manager, signing, submission) ==
    IF manager.wallet = None THEN Result("error", "No wallet loaded", <<>>)
    ELSE IF signing # "ok" THEN Result("error", signing, <<"autofill">>)
    ELSE IF submission = "ok"
    THEN Result("value", "success", <<"autofill", "submit">>)
    ELSE Result("error", submission, <<"autofill", "submit">>)

\* sign_multisig_transaction(transaction_json, signer_wallet): parses tells
\* whether json.loads accepts the text, signing how sign ends.
SignMultisigTransaction(parses, signing) ==
    IF ~parses THEN Result("error", "JSONDecodeError", <<>>)
    ELSE IF signing # "ok" THEN Result("error", signing, <<>>)
    ELSE Result("value", "success", <<>>)

\* combine answers with a blob, without one, unsuccessfully, or raises.
CombineResponses == {"ok", "no tx_blob", "unsuccessful", "raises"}

\* submit_multisig_transaction(signed_transactions): blobs tells whether
\* any entry carries a tx_blob.
SubmitMultisigTransaction(blobs, combine, submission) ==
    IF ~blobs THEN Result("error", "No signed transactions provided", <<>>)
    ELSE IF combine # "ok" THEN Result("error", combine, <<"combine">>)
    ELSE IF submission = "ok"
    THEN Result("value", "success", <<"combine", "submit">>)
    ELSE Result("error", submission, <<"combine", "submit">>)

\* get_network_info()
GetNetworkInfo(response) ==
    IF response = "ok" THEN Result("value", "info", <<"server_info">>)
    ELSE Result("error", response, <<"server_info">>)

\* The addresses given to validate_address, and len() of them.
TextLen(text) ==
    CASE text = "rDest" -> 34
      [] text = "rShort" -> 6
      [] text = "xDest" -> 34
      [] text = "rMin" -> 25
      [] text = "rBelow" -> 24
      [] text = "rLong" -> 35
      [] OTHER -> 0
MinAddressLen == 25
MaxAddressLen == 34

\* validate_address(address): reachable tells whether the request to the
\* ledger returns; when it raises the except clause answers False.
ValidateAddress(address, reachable) ==
    IF address \notin StartsWithR THEN FALSE
    ELSE IF TextLen(address) < MinAddressLen \/ TextLen(address) > MaxAddressLen
    THEN FALSE
    ELSE reachable

NoLedgerCall == [op |-> "", args |-> <<>>, result |-> Result("", "", <<>>)]
Call(op, args, result) == [op |-> op, args |-> args, result |-> result]

LedgerInit ==
    /\ mw = NewManager
    /\ fs = [enc |-> None, legacy |-> None]
    /\ environ = NewEnviron
    /\ last = NoCall
    /\ faults = 0
    /\ gate = [pc |-> "off"]
    /\ envl = EnvlIdle
    /\ ms = MsIdle /\ send = SendIdle
    /\ ledger \in {[manager |-> NewLedgerManager(network), call |-> NoLedgerCall] :
                      network \in Networks}
    /\ MoreIdle

OtherThanLedger == <<mw, fs, environ, last, faults, gate, envl, ms, send, more>>
Addresses == {None, Some(ExtSigner)}
AddressTexts == {"rDest", "rShort", "rMin", "rBelow", "rLong", "xDest", ""}

LedgerLoadWallet ==
    /\ \E secret \in {SeedA, HexKey, Junk} :
        ledger' = [manager |-> LoadWalletFromSecret(ledger.manager, secret),
                   call |-> NoLedgerCall]
    /\ UNCHANGED OtherThanLedger

LedgerGetAccountInfo ==
    /\ \E address \in Addresses, response \in Responses :
        ledger' = [ledger EXCEPT !.call =
            Call("get_account_info", [address |-> address],
                 GetAccountInfo(ledger.manager, address, response))]
    /\ UNCHANGED OtherThanLedger

LedgerGetBalance ==
    /\ \E address \in Addresses, response \in Responses :
        ledger' = [ledger EXCEPT !.call =
            Call("get_balance", [address |-> address],
                 GetBalance(ledger.manager, address, response))]
    /\ UNCHANGED OtherThanLedger

LedgerGetTransactionHistory ==
    /\ \E address \in Addresses, response \in HistoryResponses,
          xrpscan \in ProviderResponses, rippledata \in ProviderResponses :
        \E transactions \in Transactions(response) :
            ledger' = [ledger EXCEPT !.call =
                Call("get_transaction_history",
                     [address |-> address, response |-> response,
                      transactions |-> transactions,
                      xrpscan |-> xrpscan, rippledata |-> rippledata],
                     GetTransactionHistory(ledger.manager, address, response,
                                           transactions, xrpscan,
                                           rippledata))]
    /\ UNCHANGED OtherThanLedger

LedgerSendPayment ==
    /\ \E amount \in {"1", "abc"}, sequence \in Responses,
          signing \in {"ok", "raises"}, submission \in Responses :
        ledger' = [ledger EXCEPT !.call =
            Call("send_payment",
                 [wallet_loaded |-> ledger.manager.wallet # None,
                  amount |-> amount, sequence |-> sequence],
                 SendPayment(ledger.manager, amount, sequence, signing,
                             submission))]
    /\ UNCHANGED OtherThanLedger

LedgerCreateMultisigWallet ==
    /\ \E signing \in {"ok", "raises"}, submission \in Responses :
        ledger' = [ledger EXCEPT !.call =
            Call("create_multisig_wallet", <<>>,
                 CreateMultisigWallet(ledger.manager, signing, submission))]
    /\ UNCHANGED OtherThanLedger

LedgerSignMultisigTransaction ==
    /\ \E parses \in BOOLEAN, signing \in {"ok", "raises"} :
        ledger' = [ledger EXCEPT !.call =
            Call("sign_multisig_transaction", <<>>,
                 SignMultisigTransaction(parses, signing))]
    /\ UNCHANGED OtherThanLedger

LedgerSubmitMultisigTransaction ==
    /\ \E blobs \in BOOLEAN, combine \in CombineResponses,
          submission \in Responses :
        ledger' = [ledger EXCEPT !.call =
            Call("submit_multisig_transaction", <<>>,
                 SubmitMultisigTransaction(blobs, combine, submission))]
    /\ UNCHANGED OtherThanLedger

LedgerGetNetworkInfo ==
    /\ \E response \in Responses :
        ledger' = [ledger EXCEPT !.call =
            Call("get_network_info", <<>>, GetNetworkInfo(response))]
    /\ UNCHANGED OtherThanLedger

LedgerValidateAddress ==
    /\ \E address \in AddressTexts, response \in Responses :
        ledger' = [ledger EXCEPT !.call =
            Call("validate_address",
                 [address |-> address, response |-> response],
                 Result("value",
                        IF ValidateAddress(address, response # "raises")
                        THEN "True" ELSE "False",
                        IF address \in StartsWithR
                           /\ TextLen(address) >= MinAddressLen
                           /\ TextLen(address) <= MaxAddressLen
                        THEN <<"account_info">> ELSE <<>>))]
    /\ UNCHANGED OtherThanLedger

LedgerNext ==
    \/ LedgerLoadWallet
    \/ LedgerGetAccountInfo
    \/ LedgerGetBalance
    \/ LedgerGetTransactionHistory
    \/ LedgerSendPayment
    \/ LedgerCreateMultisigWallet
    \/ LedgerSignMultisigTransaction
    \/ LedgerSubmitMultisigTransaction
    \/ LedgerGetNetworkInfo
    \/ LedgerValidateAddress

SpecLedger == LedgerInit /\ [][LedgerNext]_vars

\* How many transactions a call submitted to the ledger.
Submitted(result) ==
    Cardinality({i \in DOMAIN result.requests : result.requests[i] = "submit"})

\* C8: a call of send_payment submits at most one transaction; when no
\* wallet is loaded, when the amount is not a decimal number, or when the
\* account sequence cannot be read, it submits none and returns an error
\* result.
C8_SendPaymentSubmitsOnce ==
    ledger.call.op = "send_payment" =>
        /\ Submitted(ledger.call.result) <= 1
        /\ (\/ ~ledger.call.args.wallet_loaded
            \/ ledger.call.args.amount \notin IsDecimal
            \/ ledger.call.args.sequence # "ok") =>
              /\ Submitted(ledger.call.result) = 0
              /\ ledger.call.result.kind = "error"

\* send_payment has submitted a transaction that the ledger rejected.
C8_Witness ==
    /\ ledger.call.op = "send_payment"
    /\ ledger.call.result.kind = "error"
    /\ ledger.call.result.what = "unsuccessful"
    /\ Submitted(ledger.call.result) = 1

\* C9: get_account_info, get_balance, get_transaction_history,
\* send_payment, create_multisig_wallet, sign_multisig_transaction,
\* submit_multisig_transaction and get_network_info never raise: every
\* failure, a call with no address while no wallet is loaded included,
\* comes back as a result that carries the error.
C9_LedgerCallsNeverRaise ==
    ledger.call.result.kind # "raised"

(***************************************************************************)
(* gui.py: the Send tab. send_transaction validates the form on the UI     *)
(* thread and starts a worker thread; the worker calls send_payment and    *)
(* puts apply into the UI queue; _process_ui_queue runs it.                *)
(***************************************************************************)

\* str.isdigit() and the upper 16 bits of int(text): the value is at most
\* 2 ** 32 - 1 exactly when they are at most 65535.
TagIsDigit == IsDigit
TagHigh(text) ==
    CASE text = "4294967296" -> 65536
      [] text = "4294967295" -> 65535
      [] OTHER -> 0

Form(destination, amount, tag, memo) ==
    [destination |-> destination, amount |-> amount, tag |-> tag,
     memo |-> memo]
EmptyForm == Form("", "", "", "")
SendForms ==
    {EmptyForm,
     Form("rDest", "1", "", ""), Form("rDest", "1", "7", "memo"),
     Form("rDest", "abc", "", ""), Form("rDest", "", "", ""),
     Form("xDest", "1", "", ""), Form("rShort", "1", "", ""),
     Form("rDest", "1", "x", ""), Form("rDest", "1", "4294967296", "")}

\* The worker threads that run and the callbacks that wait in the UI queue.
MaxWorkers == 2

SendOut(op, msg) ==
    [op |-> op, msg |-> msg, success |-> FALSE, cleared |-> FALSE,
     refreshed |-> FALSE, kept |-> TRUE]

\* Mutant: the destination tag is only tested for digits.
SendTransactionNoRange(s, m, reachable, confirm) ==
    LET manager == GetActiveManager(m)
        f == s.form
        Blocked(msg) == [s EXCEPT !.out = SendOut("send", msg)]
    IN  IF NoWallet(manager) THEN Blocked("No wallet selected")
        ELSE IF f.destination = "" \/ f.amount = ""
        THEN Blocked("Please fill in destination and amount")
        ELSE IF ~ValidateAddress(f.destination, reachable)
        THEN Blocked("Invalid destination address")
        ELSE IF ~confirm THEN Blocked("")
        ELSE IF f.tag # "" /\ f.tag \notin TagIsDigit
        THEN Blocked("Destination tag must be a positive integer")
        ELSE [s EXCEPT
                !.threads = Append(@, [manager |-> manager[1], form |-> f,
                                       validated |-> TRUE,
                                       confirmed |-> confirm]),
                !.out = SendOut("send", "Sending transaction...")]

\* send_transaction(): the form is read as it stands; confirm is the answer
\* to askyesno. A started thread keeps the manager and the values it was
\* given, and (ghosts) what validate_address and askyesno had answered.
SendTransaction(s, m, reachable, confirm) ==
    LET manager == GetActiveManager(m)
        f == s.form
        Blocked(msg) == [s EXCEPT !.out = SendOut("send", msg)]
    IN  IF NoWallet(manager) THEN Blocked("No wallet selected")
        ELSE IF f.destination = "" \/ f.amount = ""
        THEN Blocked("Please fill in destination and amount")
        ELSE IF ~ValidateAddress(f.destination, reachable)
        THEN Blocked("Invalid destination address")
        ELSE IF ~confirm THEN Blocked("")
        ELSE IF f.tag # "" /\ f.tag \notin TagIsDigit
        THEN Blocked("Destination tag must be a positive integer")
        ELSE IF f.tag # "" /\ ~(0 <= TagHigh(f.tag) /\ TagHigh(f.tag) <= 65535)
        THEN Blocked("Destination tag must be between 0 and 2^32-1")
        ELSE [s EXCEPT
                !.threads = Append(@, [manager |-> manager[1], form |-> f,
                                       validated |->
                                           ValidateAddress(f.destination,
                                                           reachable),
                                       confirmed |-> confirm]),
                !.out = SendOut("send", "Sending transaction...")]

\* send_thread: the result of send_payment becomes the closure apply.
SendThread(job, sequence, signing, submission) ==
    LET result == SendPayment(job.manager, job.form.amount, sequence, signing,
                              submission)
    IN  [success |-> result.kind = "value"]

\* apply(), run by _process_ui_queue: when the widgets of the workspace
\* have been destroyed update_text_widget raises and the queue loop
\* prints the error.
Apply(s, callback) ==
    IF s.screen # "workspace"
    THEN [s EXCEPT !.out = [SendOut("apply", "UI callback error") EXCEPT
                              !.success = callback.success]]
    ELSE IF callback.success
    THEN [s EXCEPT !.form = EmptyForm,
                   !.out = [SendOut("apply", "Transaction sent") EXCEPT
                              !.success = TRUE, !.cleared = TRUE,
                              !.refreshed = TRUE,
                              !.kept = (s.form = EmptyForm)]]
    ELSE [s EXCEPT !.out = SendOut("apply", "Transaction failed")]

AliceDir ==
    [enc |-> Some(EncryptPayload(AliceDoc, PwA, KdfIterations,
                                 "salt0", "nonce0")),
     legacy |-> None]

\* The workspace of the active wallet is open on an empty form.
SendInit ==
    /\ mw = Unlocked(AliceDir).mw
    /\ fs = AliceDir
    /\ environ = Unlocked(AliceDir).env
    /\ last = NoCall
    /\ faults = 0
    /\ gate = GatePassed
    /\ envl = EnvlIdle
    /\ ms = MsIdle
    /\ send = [screen |-> "workspace", form |-> EmptyForm, threads |-> <<>>,
               queue |-> <<>>, out |-> SendOut("", "")]
    /\ ledger = LedgerIdle
    /\ MoreIdle

OtherThanSend == <<mw, fs, environ, last, faults, gate, envl, ms, ledger, more>>

\* The user types into the form.
SendEdit ==
    /\ send.screen = "workspace"
    /\ \E form \in SendForms \ {send.form} :
        send' = [send EXCEPT !.form = form]
    /\ UNCHANGED OtherThanSend

SendClick ==
    /\ send.screen = "workspace"
    /\ Len(send.threads) + Len(send.queue) < MaxWorkers
    /\ \E reachable \in BOOLEAN, confirm \in BOOLEAN :
        send' = SendTransaction(send, mw, reachable, confirm)
    /\ UNCHANGED OtherThanSend

SendWorker ==
    /\ \E i \in DOMAIN send.threads, sequence \in Responses,
          signing \in {"ok", "raises"}, submission \in Responses :
        send' = [send EXCEPT
                   !.threads = SubSeq(@, 1, i - 1) \o SubSeq(@, i + 1, Len(@)),
                   !.queue = Append(@, SendThread(send.threads[i], sequence,
                                                  signing, submission))]
    /\ UNCHANGED OtherThanSend

SendProcessUiQueue ==
    /\ send.queue # <<>>
    /\ send' = [Apply(send, Head(send.queue)) EXCEPT !.queue = Tail(send.queue)]
    /\ UNCHANGED OtherThanSend

\* "Back to Wallets" destroys the workspace.
SendBackToWallets ==
    /\ send.screen = "workspace"
    /\ send' = [send EXCEPT !.screen = "welcome", !.out = SendOut("", "")]
    /\ UNCHANGED OtherThanSend

\* select_wallet opens it again: create_send_tab makes new, empty fields.
SendOpenWorkspace ==
    /\ send.screen = "welcome"
    /\ send' = [send EXCEPT !.screen = "workspace", !.form = EmptyForm]
    /\ UNCHANGED OtherThanSend

SendNext ==
    \/ SendEdit
    \/ SendClick
    \/ SendWorker
    \/ SendProcessUiQueue
    \/ SendBackToWallets
    \/ SendOpenWorkspace

SpecSend == SendInit /\ [][SendNext]_vars

\* C7: every payment handed to send_payment was started with a non-empty
\* destination and amount, a destination that validate_address accepted, a
\* destination tag that is empty or an integer from 0 to 2^32 - 1, and a
\* yes to the confirmation; a delivered result clears the form and starts
\* the balance refresh only when it is a success, and leaves the form as
\* it is when it is a failure.
C7_SendOnlyValidatedAndConfirmed ==
    /\ \A i \in DOMAIN send.threads :
        LET job == send.threads[i]
        IN  /\ job.form.destination # "" /\ job.form.amount # ""
            /\ job.validated
            /\ job.confirmed
            /\ \/ job.form.tag = ""
               \/ job.form.tag \in TagIsDigit /\ TagHigh(job.form.tag) <= 65535
    /\ send.out.op = "apply" =>
        /\ send.out.cleared => send.out.success
        /\ send.out.refreshed => send.out.success
        /\ ~send.out.success => send.out.kept

\* A successful result has been delivered and has cleared a filled form
\* while another payment, with a destination tag, is with its worker.
C7_Witness ==
    /\ send.out.op = "apply" /\ send.out.success /\ send.out.cleared
    /\ ~send.out.kept
    /\ send.form = EmptyForm
    /\ \E i \in DOMAIN send.threads : send.threads[i].form.tag = "7"

(***************************************************************************)
(* gui.py: MultiWalletManager used directly. A manager is constructed on a *)
(* data directory and its public methods are called in any order, before   *)
(* or after initialize; calls keeps the method called last and its         *)
(* arguments. Opening wallets.enc for writing may fail during initialize.  *)
(***************************************************************************)

\* How often the data directory refuses a write in one run.
MaxFaults == 1

CallsInit ==
    /\ mw = NewManager
    /\ fs \in {[enc |-> None, legacy |-> None],
               [enc |-> None, legacy |-> Some(LegacyDoc)],
               [enc |-> Some(EncryptPayload(ContactsDoc, PwA, KdfIterations,
                                            "salt0", "nonce0")),
                legacy |-> None]}
    /\ environ = NewEnviron
    /\ last = NoCall
    /\ faults = 0
    /\ gate = Off /\ envl = EnvlIdle
    /\ ms = MsIdle /\ send = SendIdle /\ ledger = LedgerIdle
    /\ calls = [pc |-> "on", op |-> "", args |-> <<>>]
    /\ tools = Off /\ tags = Off /\ recv = Off /\ RestIdle

OtherThanCalls ==
    <<gate, envl, ms, send, ledger, tools, tags, recv, rest>>

\* The call op(args) returns r.
Called(op, args, r) ==
    /\ Commit(r)
    /\ calls' = [pc |-> "on", op |-> op, args |-> args]
    /\ UNCHANGED OtherThanCalls

CallsInitialize ==
    \E password \in {PwA, PwShort}, io_ok \in BOOLEAN :
        /\ io_ok \/ faults < MaxFaults
        /\ Called("initialize", [password |-> password],
                  Initialize(TheWorld, password, io_ok, "salt1", "nonce1"))

CallsAddWallet ==
    \E name \in Names, input \in {<<Padded(SeedA), "testnet">>,
                                      <<Junk, "testnet">>} :
        Called("add_wallet", [name |-> name],
               AddWallet(TheWorld, name, input[1], input[2], None,
                         TRUE, "salt1", "nonce1"))

CallsRemoveWallet ==
    \E name \in Names :
        Called("remove_wallet", [name |-> name],
               RemoveWallet(TheWorld, name, TRUE, "salt1", "nonce1"))

CallsSetActiveWallet ==
    \E name \in Names :
        Called("set_active_wallet", [name |-> name],
               SetActiveWallet(TheWorld, name, TRUE, "salt1", "nonce1"))

\* get_or_create_manager(name): ensure_initialized, then None for a name
\* that is not stored.
CallsGetOrCreateManager ==
    \E name \in Names :
        LET g == GetOrCreateManager(mw, name)
        IN  Called("get_or_create_manager", [name |-> name],
                   IF ~IsInitialized(mw)
                   THEN Ret(TheWorld, "RuntimeError", "not initialized")
                   ELSE IF name \notin DOMAIN mw.wallets
                   THEN Ret(TheWorld, "None", "")
                   ELSE IF ~g.ok THEN Ret(TheWorld, "ValueError", "secret")
                   ELSE Ret(World(g.mw, fs, environ), "manager", ""))

CallsSaveWallets ==
    Called("save_wallets", <<>>, SaveWallets(TheWorld, TRUE, "salt1", "nonce1"))

CallsAddOrUpdateContact ==
    \E contact \in ContactInputs,
       index \in {None} \cup {Some(i) : i \in -1..MaxContacts} :
        /\ \/ Len(mw.address_book) < MaxContacts
           \/ index # None /\ 0 <= index[1] /\ index[1] < Len(mw.address_book)
        /\ Called("add_or_update_contact",
                  [contact |-> contact, index |-> index],
                  AddOrUpdateContact(TheWorld, contact, index,
                                     TRUE, "salt1", "nonce1"))

CallsRemoveContact ==
    \E index \in -1..MaxContacts :
        Called("remove_contact", [index |-> index],
               RemoveContact(TheWorld, index, TRUE, "salt1", "nonce1"))

CallsNext ==
    \/ CallsInitialize
    \/ CallsAddWallet
    \/ CallsRemoveWallet
    \/ CallsSetActiveWallet
    \/ CallsGetOrCreateManager
    \/ CallsSaveWallets
    \/ CallsAddOrUpdateContact
    \/ CallsRemoveContact

SpecCalls == CallsInit /\ [][CallsNext]_vars

\* What wallets.enc holds, read with the password of the manager m.
OnDisk(dir, m) == DecryptEnvelope(dir.enc[1], m.password[1]).payload

Without(book, i) == SubSeq(book, 1, i) \o SubSeq(book, i + 2, Len(book))

\* C12: on an initialized store add_or_update_contact with an index i,
\* 0 <= i < length, replaces exactly entry i and keeps the length and the
\* other entries; with no index or an index outside that range it appends
\* one entry at the end; remove_contact(i) with a valid i deletes exactly
\* entry i and keeps the order of the rest, with an invalid i it changes
\* nothing; and when the call returns wallets.enc holds the list.
C12_ContactsByIndex ==
    [][IsInitialized(mw) =>
        /\ calls'.op = "add_or_update_contact" =>
            LET index == calls'.args.index
                entry == [calls'.args.contact EXCEPT !.pad = FALSE]
            IN  /\ IF index # None /\ 0 <= index[1]
                      /\ index[1] < Len(mw.address_book)
                   THEN /\ Len(mw'.address_book) = Len(mw.address_book)
                        /\ \A j \in 1..Len(mw.address_book) :
                             mw'.address_book[j] =
                                IF j = index[1] + 1 THEN entry
                                ELSE mw.address_book[j]
                   ELSE mw'.address_book = mw.address_book \o <<entry>>
                /\ OnDisk(fs', mw')[1].address_book = mw'.address_book
        /\ calls'.op = "remove_contact" =>
            IF 0 <= calls'.args.index
               /\ calls'.args.index < Len(mw.address_book)
            THEN /\ mw'.address_book =
                        Without(mw.address_book, calls'.args.index)
                 /\ OnDisk(fs', mw')[1].address_book = mw'.address_book
            ELSE mw' = mw /\ fs' = fs]_vars

\* The first of two different contacts has been removed.
C12_Witness ==
    /\ calls.op = "remove_contact" /\ calls.args.index = 0
    /\ IsInitialized(mw)
    /\ Len(mw.address_book) = 1
    /\ mw.address_book[1].label = "dave"
    /\ OnDisk(fs, mw)[1].address_book = mw.address_book

\* The methods that work on the unlocked store.
StoreOps ==
    {"add_wallet", "remove_wallet", "set_active_wallet",
     "get_or_create_manager", "save_wallets", "add_or_update_contact",
     "remove_contact"}

\* C13: every store operation called before a successful initialize fails
\* with the not-initialized error and leaves the wallet map, the active
\* wallet, the address book and the disk exactly as they were.
C13_NotInitializedChangesNothing ==
    [][(calls'.op \in StoreOps /\ ~IsInitialized(mw)) =>
        /\ last'.ret = "RuntimeError"
        /\ mw'.wallets = mw.wallets
        /\ mw'.active_wallet = mw.active_wallet
        /\ mw'.address_book = mw.address_book
        /\ fs' = fs]_vars

\* The legacy entries whose secrets parse.
Parsable(doc) ==
    {n \in DOMAIN doc.wallets :
        create_wallet_from_secret(Get(doc.wallets[n].secret, EmptyStr),
                                  None, None).ok}

\* C17: on the first initialize with a legacy file and no encrypted store,
\* the legacy entries whose secrets parse, and only those, are in memory;
\* and the legacy file is gone only if wallets.enc has been written and
\* holds those entries.
C17_LegacyDeletedAfterSave ==
    [][(/\ calls'.op = "initialize"
        /\ ~mw.initialized /\ fs.legacy # None /\ fs.enc = None
        /\ last'.why # "short") =>
        /\ DOMAIN mw'.wallets = Parsable(fs.legacy[1])
        /\ fs'.legacy = None =>
            /\ fs'.enc # None
            /\ DOMAIN OnDisk(fs', mw')[1].wallets = Parsable(fs.legacy[1])]_vars

(***************************************************************************)
(* xrp_wallet.py, convert_seed.py, debug_seed.py: the secret parser and    *)
(* the command-line tools that are given a secret as their argument.       *)
(* tools keeps one run: what was called, with which arguments, what it     *)
(* returned and what it printed.                                           *)
(***************************************************************************)

\* Further shapes of a secret: a hex key typed in upper case, an ED key in
\* lower case, 64 hex digits that begin with ED, 63 hex digits, and ED
\* followed by text that is not hex.
HexUpper == [HexKey EXCEPT !.body = "hexU", !.lower = FALSE]
EdLower == [EdKey EXCEPT !.body = "edL", !.lower = TRUE]
EdHex64 == [EdKey EXCEPT !.body = "edH", !.len = HexKeyLen]
Hex63 == [HexKey EXCEPT !.body = "hex63", !.len = HexKeyLen - 1]
EdNotHex == [EdKey EXCEPT !.body = "edX", !.tailhex = FALSE]
ToolSecrets ==
    {SeedA, Padded(SeedA), SeedB, Padded(SeedB), SeedBad, HexKey,
     Padded(HexKey), HexUpper, EdKey, Padded(EdKey), EdLower, EdHex64, Hex63,
     EdNotHex, Junk, EmptyStr, Padded(EmptyStr)}

\* The algorithm a caller has stored with a secret, and the public key it
\* has cached for it: none, or the key derived from that secret.
Hints == {None, Some("ed25519"), Some("secp256k1")}
CachedKeys(secret) ==
    LET p == create_wallet_from_secret(secret, None, None)
    IN  {None} \cup (IF p.ok THEN {Some(p.info.public_key)} ELSE {})

\* How a derived public key reads: curve.encode_point(..., compressed=True)
\* gives 33 bytes that begin with 02 or 03, the Ed25519 key is the prefix
\* ED and 32 bytes.
PublicKeyText(pub) ==
    [prefix |-> IF pub.alg = "ed25519" THEN "ED" ELSE "02 or 03",
     len |-> EdKeyLen]

\* len(info.secret) and len(info.private_key): xrpl gives a key derived
\* from a seed its two-character prefix.
SecretLen(info) == info.secret.len
PrivateKeyLen(info) ==
    IF info.secret_type = "seed" THEN EdKeyLen ELSE info.secret.len

\* What a print statement shows of a text: all of it, its first and last
\* characters around an ellipsis, or a fixed placeholder.
Shown(what, of, form, head, tail) ==
    [what |-> what, of |-> of, form |-> form, head |-> head, tail |-> tail]
MaskHead == 6
MaskTail == 4
MaskMin == 10

\* convert_seed.py, inspect_secret(secret): the lines it prints.
InspectSecret(secret) ==
    LET p == create_wallet_from_secret(secret, None, None)
        Masked(what, of, length, placeholder) ==
            IF length > MaskMin
            THEN Shown(what, of, "masked", MaskHead, MaskTail)
            ELSE Shown(what, placeholder, "placeholder", 0, 0)
    IN  IF ~p.ok THEN <<Shown("error", p.err, "full", 0, 0)>>
        ELSE <<Shown("address", p.wallet.address, "full", 0, 0),
               Masked("secret", p.info.secret, SecretLen(p.info),
                      "(short secret)"),
               Masked("private_key", p.info.private_key, PrivateKeyLen(p.info),
                      "(short key)")>>

\* debug_seed.py, debug_seed_format(seed_input): the lines it prints.
DebugSeedFormat(seed_input) ==
    LET p == create_wallet_from_secret(seed_input, None, None)
    IN  <<Shown("secret", seed_input, "full", 0, 0)>>
        \o (IF ~p.ok THEN <<Shown("error", p.err, "full", 0, 0)>>
            ELSE <<Shown("private_key", p.info.private_key, "masked",
                         MaskHead, MaskTail),
                   Shown("address", p.wallet.address, "full", 0, 0)>>)

ToolsInit ==
    /\ mw = NewManager
    /\ fs = [enc |-> None, legacy |-> None]
    /\ environ = NewEnviron
    /\ last = NoCall
    /\ faults = 0
    /\ gate = Off /\ envl = EnvlIdle
    /\ ms = MsIdle /\ send = SendIdle /\ ledger = LedgerIdle
    /\ calls = Off
    /\ tools = [pc |-> "ready"]
    /\ tags = Off /\ recv = Off /\ RestIdle

OtherThanTools ==
    <<mw, fs, environ, last, faults, gate, envl, ms, send, ledger, calls,
      tags, recv, rest>>

\* create_wallet_from_secret(secret, public_key=, algorithm_hint=)
ToolsCreateWalletFromSecret ==
    /\ \E secret \in ToolSecrets, hint \in Hints :
        \E public_key \in CachedKeys(secret) :
            tools' = [pc |-> "done", tool |-> "create_wallet_from_secret",
                      secret |-> secret, public_key |-> public_key,
                      hint |-> hint,
                      result |-> create_wallet_from_secret(secret, public_key,
                                                           hint),
                      out |-> <<>>]
    /\ UNCHANGED OtherThanTools

\* python convert_seed.py SECRET
ToolsInspectSecret ==
    /\ \E secret \in ToolSecrets :
        tools' = [pc |-> "done", tool |-> "convert_seed", secret |-> secret,
                  public_key |-> None, hint |-> None,
                  result |-> create_wallet_from_secret(secret, None, None),
                  out |-> InspectSecret(secret)]
    /\ UNCHANGED OtherThanTools

\* python debug_seed.py SECRET
ToolsDebugSeedFormat ==
    /\ \E secret \in ToolSecrets :
        tools' = [pc |-> "done", tool |-> "debug_seed", secret |-> secret,
                  public_key |-> None, hint |-> None,
                  result |-> create_wallet_from_secret(secret, None, None),
                  out |-> DebugSeedFormat(secret)]
    /\ UNCHANGED OtherThanTools

ToolsNext ==
    \/ ToolsCreateWalletFromSecret
    \/ ToolsInspectSecret
    \/ ToolsDebugSeedFormat

SpecTools == ToolsInit /\ [][ToolsNext]_vars

\* The shape of a trimmed input.
IsBlank(s) == s.len = 0
IsSeedShape(s) == s.len > 0 /\ s.first = "s"
IsEdShape(s) == s.first = "ED" /\ s.len = 66 /\ s.tailhex
IsHex64Shape(s) == s.first \in {"ED", "hex"} /\ s.tailhex /\ s.len = 64

\* C14: create_wallet_from_secret decides by the shape of the trimmed input:
\* empty or blank input fails as an empty secret; a leading s is a seed, and
\* a seed the library rejects is an invalid-seed error; ED and 64 hex digits
\* in any letter case give an ed25519 private key whose public key has 66
\* characters and starts with ED; exactly 64 hex digits give a secp256k1
\* private key whose public key has 66 characters and starts with 02 or
\* 03, unless the hint is ed25519, which is an error; every other input is
\* an error; and an error returns no wallet and no key material.
C14_ShapeDecides ==
    (tools.pc = "done" /\ tools.tool = "create_wallet_from_secret") =>
        LET s == tools.secret
            r == tools.result
            KeyOf(alg) ==
                /\ r.ok
                /\ r.info.secret_type = "private_key"
                /\ r.info.algorithm = alg /\ r.wallet.algorithm = alg
                /\ PublicKeyText(r.info.public_key).len = 66
                /\ PublicKeyText(r.info.public_key).prefix =
                       (IF alg = "ed25519" THEN "ED" ELSE "02 or 03")
        IN  /\ ~r.ok => DOMAIN r = {"ok", "err"}
            /\ IF IsBlank(s) THEN ~r.ok /\ r.err = "Secret value is empty"
               ELSE IF IsSeedShape(s)
               THEN IF s.libok
                    THEN r.ok /\ r.info.secret_type = "seed"
                    ELSE ~r.ok /\ r.err = "Invalid XRP seed"
               ELSE IF IsEdShape(s) THEN KeyOf("ed25519")
               ELSE IF IsHex64Shape(s)
               THEN IF tools.hint = Some("ed25519") THEN ~r.ok
                    ELSE KeyOf("secp256k1")
               ELSE ~r.ok

\* C16: no command-line tool prints a secret or a private key in full: one
\* longer than 10 characters is shown by its first 6 and last 4 characters
\* only, a shorter one by a fixed placeholder.
C16_SecretsAlwaysMasked ==
    tools.pc = "done" =>
        \A i \in DOMAIN tools.out :
            tools.out[i].what \in {"secret", "private_key"} =>
                \/ tools.out[i].form = "placeholder"
                \/ /\ tools.out[i].form = "masked"
                   /\ tools.out[i].head = 6 /\ tools.out[i].tail = 4

(***************************************************************************)
(* The forms that take a destination tag: each Save or Prepare handler is  *)
(* run on what was typed, and tags keeps what was typed together with the  *)
(* tag the handler stored or placed in a transaction (taken).              *)
(***************************************************************************)

\* The texts typed into a tag entry, and str.strip() of them.
TagTexts ==
    {"", "0", "7", "4294967295", "4294967296", "abc", "-1", " 7 "}
TagStrip(text) == IF text = " 7 " THEN "7" ELSE text
\* int(weight_str) of the texts str.isdigit() accepts.
WeightValue(text) ==
    CASE text = "0" -> 0
      [] text = "1" -> 1
      [] OTHER -> 7

\* AddressEntryDialog.save(): the result of the dialog, None when an error
\* box was shown.  The entries are given as typed, after strip().
AddressEntrySave(label, address, tag) ==
    IF label = "" THEN None
    ELSE IF address = "" \/ address \notin StartsWithR THEN None
    ELSE IF tag # "" /\ (tag \notin IsDigit
                         \/ ~(0 <= TagHigh(tag) /\ TagHigh(tag) <= 65535))
    THEN None
    ELSE Some([label |-> label, address |-> address, destination_tag |-> tag])

\* SignerEntryDialog.save()
SignerEntrySave(label, address, tag, weight) ==
    LET weight_str == IF weight = "" THEN "1" ELSE weight
    IN  IF address = "" \/ address \notin StartsWithR THEN None
        ELSE IF tag # "" /\ tag \notin IsDigit THEN None
        ELSE IF weight_str \notin IsDigit \/ WeightValue(weight_str) <= 0
        THEN None
        ELSE Some([label |-> IF label = "" THEN "Signer" ELSE label,
                   address |-> address, tag |-> tag,
                   weight |-> WeightValue(weight_str)])

TagsInit ==
    /\ mw = Unlocked(AliceDir).mw
    /\ fs = AliceDir
    /\ environ = Unlocked(AliceDir).env
    /\ last = NoCall
    /\ faults = 0
    /\ gate = GatePassed
    /\ envl = EnvlIdle
    /\ ms = MsIdle /\ send = SendIdle /\ ledger = LedgerIdle
    /\ calls = Off /\ tools = Off /\ recv = Off /\ RestIdle
    /\ tags = [pc |-> "ready"]

OtherThanTags ==
    <<mw, fs, environ, last, faults, gate, envl, ms, send, ledger, calls,
      tools, recv, rest>>

Entered(form, typed, args, taken) ==
    /\ tags' = [pc |-> "done", form |-> form, typed |-> typed, args |-> args,
                taken |-> taken]
    /\ UNCHANGED OtherThanTags

\* The Send tab: send_transaction() on the form as typed.
TagsSendTransaction ==
    \E typed \in TagTexts, destination \in {"rDest", "rShort"},
       reachable \in BOOLEAN, confirm \in BOOLEAN :
        LET s == [screen |-> "workspace",
                  form |-> Form(destination, "1", TagStrip(typed), ""),
                  threads |-> <<>>, queue |-> <<>>, out |-> SendOut("", "")]
            after == SendTransaction(s, mw, reachable, confirm)
        IN  Entered("send", typed, <<destination, reachable, confirm>>,
                    IF after.threads = <<>> THEN None
                    ELSE Some(after.threads[1].form.tag))

\* The address-book entry editor.
TagsAddressEntrySave ==
    \E typed \in TagTexts, label \in {"Bob", ""},
       address \in {"rDest", "xDest", ""} :
        LET result == AddressEntrySave(label, address, TagStrip(typed))
        IN  Entered("address", typed, <<label, address>>,
                    IF result = None THEN None
                    ELSE Some(result[1].destination_tag))

\* The signer-entry editor.
TagsSignerEntrySave ==
    \E typed \in TagTexts, label \in {"Bob", ""},
       address \in {"rDest", "xDest"}, weight \in {"", "0", "7", "abc"} :
        LET result == SignerEntrySave(label, address, TagStrip(typed), weight)
        IN  Entered("signer", typed, <<label, address, weight>>,
                    IF result = None THEN None ELSE Some(result[1].tag))

\* The multisig tab: prepare_multisig_transaction_action() with a signer
\* list enabled.  The transaction keeps int(tag_value), written here as its
\* digits.
TagsPrepareMultisig ==
    \E typed \in TagTexts, destination \in {"rDest", "xDest"},
       amount \in {"1", "abc", ""} :
        LET g == [screen |-> "workspace", worker |-> "idle",
                  onledger |-> ListEqual, status |-> ListEqual,
                  status_for |-> None, session |-> None, out |-> NoOut]
            after == PrepareMultisigTransactionAction(g, mw,
                        [destination |-> destination, amount |-> amount,
                         tag |-> TagStrip(typed)])
        IN  Entered("multisig", typed, <<destination, amount>>,
                    IF after.session = None THEN None
                    ELSE Some(after.session[1].tx_json.DestinationTag))

TagsNext ==
    \/ TagsSendTransaction
    \/ TagsAddressEntrySave
    \/ TagsSignerEntrySave
    \/ TagsPrepareMultisig

SpecTags == TagsInit /\ [][TagsNext]_vars

\* C15: in every form a non-empty destination tag is stored, or placed in a
\* transaction, only if it is a string of decimal digits whose value lies in
\* [0, 4294967295].
C15_TagInRangeOrRejected ==
    (tags.pc = "done" /\ TagStrip(tags.typed) # "" /\ tags.taken # None)
        => /\ TagStrip(tags.typed) \in TagIsDigit
           /\ 0 <= TagHigh(TagStrip(tags.typed))
           /\ TagHigh(TagStrip(tags.typed)) <= 65535

(***************************************************************************)
(* The fallback chain of get_transaction_history and validate_address.     *)
(***************************************************************************)

Consulted(provider) ==
    \E i \in DOMAIN ledger.call.result.requests :
        ledger.call.result.requests[i] = provider

C19_FormatAloneDecides ==
    ledger.call.op = "validate_address"
        => (ledger.call.result.what = "True"
              <=> /\ ledger.call.args.address \in StartsWithR
                  /\ TextLen(ledger.call.args.address) >= MinAddressLen
                  /\ TextLen(ledger.call.args.address) <= MaxAddressLen)

(***************************************************************************)
(* gui.py: the Receive tab.  update_receive_tab shows the address and      *)
(* either the cached QR image or starts a worker thread that fetches one;  *)
(* the worker puts apply into the UI queue; _process_ui_queue runs it.     *)
(* An image is written as the address it encodes; out is a ghost, the step *)
(* last taken.                                                             *)
(***************************************************************************)

MaxPending == 2
RecvAddresses == {None, Some("rDest"), Some("rMin")}

NewThread(address) ==
    [address |-> address, pc |-> "fetch", image |-> None, requests |-> 0]

\* Mutant: a cached image is shown whatever address was shown last.
UpdateReceiveTabCacheOnly(r, address) ==
    IF ~r.built THEN r
    ELSE IF address = None \/ address[1] \notin StartsWithR
    THEN [r EXCEPT !.address_var = "Select a wallet to view address",
                   !.status = "", !.label = None, !.qr_image = None,
                   !.last_address = None]
    ELSE IF address[1] \in r.cache
    THEN [r EXCEPT !.address_var = address[1], !.qr_image = address,
                   !.label = address, !.status = ""]
    ELSE [r EXCEPT !.address_var = address[1], !.last_address = address,
                   !.status = "Fetching QR code...", !.label = None,
                   !.threads = Append(@, NewThread(address[1]))]

\* update_receive_tab(address)
UpdateReceiveTab(r, address) ==
    IF ~r.built THEN r
    ELSE IF address = None \/ address[1] \notin StartsWithR
    THEN [r EXCEPT !.address_var = "Select a wallet to view address",
                   !.status = "", !.label = None, !.qr_image = None,
                   !.last_address = None]
    ELSE IF address = r.last_address /\ address[1] \in r.cache
    THEN [r EXCEPT !.address_var = address[1], !.qr_image = address,
                   !.label = address, !.status = ""]
    ELSE [r EXCEPT !.address_var = address[1], !.last_address = address,
                   !.status = "Fetching QR code...", !.label = None,
                   !.threads = Append(@, NewThread(address[1]))]

\* refresh_receive_qr()
RefreshReceiveQr(r) ==
    IF r.last_address = None
    THEN [r EXCEPT !.bar = "No wallet selected for QR"]
    ELSE UpdateReceiveTab([r EXCEPT !.cache = @ \ {r.last_address[1]}],
                          r.last_address)

\* worker, up to the return of _fetch_qr_image: one request; when it fails
\* the status line with the error is put into the UI queue.
FetchQrImage(r, i, ok) ==
    [r EXCEPT !.threads[i] = [@ EXCEPT !.pc = "fetched",
                                        !.image = IF ok
                                                  THEN Some(r.threads[i].address)
                                                  ELSE None,
                                        !.requests = @ + 1],
              !.queue = IF ok THEN @ ELSE Append(@, [kind |-> "error"])]

\* worker, run_on_ui_thread(apply): the thread ends.
PutApply(r, i) ==
    [r EXCEPT !.threads = [k \in 1..(Len(@) - 1) |->
                              IF k < i THEN @[k] ELSE @[k + 1]],
              !.queue = Append(@, [kind |-> "apply",
                                   address |-> r.threads[i].address,
                                   image |-> r.threads[i].image])]

\* apply() and the error line, as _process_ui_queue runs them.
RunCallback(r, callback) ==
    IF callback.kind = "error" THEN [r EXCEPT !.status = "QR error"]
    ELSE IF callback.image # None
    THEN [r EXCEPT !.cache = @ \cup {callback.address},
                   !.qr_image = callback.image, !.label = callback.image,
                   !.status = ""]
    ELSE [r EXCEPT !.status = "QR unavailable"]

RecvOut(op, address, image, had) ==
    [op |-> op, address |-> address, image |-> image, had |-> had]

\* ModernXRPWalletGUI.__init__, lines 489-491, and create_receive_tab.
RecvInit ==
    /\ mw = NewManager
    /\ fs = [enc |-> None, legacy |-> None]
    /\ environ = NewEnviron
    /\ last = NoCall
    /\ faults = 0
    /\ gate = GatePassed
    /\ envl = EnvlIdle
    /\ ms = MsIdle /\ send = SendIdle /\ ledger = LedgerIdle
    /\ calls = Off /\ tools = Off /\ tags = Off /\ RestIdle
    /\ \E built \in BOOLEAN :
        recv = [built |-> built, cache |-> {}, qr_image |-> None,
                last_address |-> None, label |-> None, bar |-> "",
                address_var |-> "Select a wallet to view address",
                status |-> "", threads |-> <<>>, queue |-> <<>>,
                out |-> RecvOut("", None, None, FALSE)]

OtherThanRecv ==
    <<mw, fs, environ, last, faults, gate, envl, ms, send, ledger, calls,
      tools, tags, rest>>

Pending == Len(recv.threads) + Len(recv.queue)

RecvUpdateReceiveTab ==
    /\ Pending < MaxPending
    /\ \E address \in RecvAddresses :
        recv' = [UpdateReceiveTab(recv, address) EXCEPT
                    !.out = RecvOut("update_receive_tab", address, None,
                                    address # None
                                    /\ address[1] \in recv.cache)]
    /\ UNCHANGED OtherThanRecv

RecvRefreshReceiveQr ==
    /\ Pending < MaxPending
    /\ recv.built
    /\ recv' = [RefreshReceiveQr(recv) EXCEPT
                   !.out = RecvOut("refresh_receive_qr", recv.last_address,
                                   None,
                                   recv.last_address # None
                                   /\ recv.last_address[1] \in recv.cache)]
    /\ UNCHANGED OtherThanRecv

RecvFetchQrImage ==
    /\ \E i \in DOMAIN recv.threads, ok \in BOOLEAN :
        /\ recv.threads[i].pc = "fetch"
        /\ recv' = [FetchQrImage(recv, i, ok) EXCEPT
                       !.out = RecvOut("_fetch_qr_image",
                                       Some(recv.threads[i].address),
                                       IF ok
                                       THEN Some(recv.threads[i].address)
                                       ELSE None, FALSE)]
    /\ UNCHANGED OtherThanRecv

RecvPutApply ==
    /\ \E i \in DOMAIN recv.threads :
        /\ recv.threads[i].pc = "fetched"
        /\ recv' = [PutApply(recv, i) EXCEPT
                       !.out = RecvOut("worker", Some(recv.threads[i].address),
                                       recv.threads[i].image, FALSE)]
    /\ UNCHANGED OtherThanRecv

RecvProcessUiQueue ==
    /\ recv.queue # <<>>
    /\ LET callback == Head(recv.queue)
       IN  recv' = [RunCallback([recv EXCEPT !.queue = Tail(@)], callback)
                    EXCEPT !.out =
                        IF callback.kind = "error"
                        THEN RecvOut("error", None, None, FALSE)
                        ELSE RecvOut("apply", Some(callback.address),
                                     callback.image, FALSE)]
    /\ UNCHANGED OtherThanRecv

RecvNext ==
    \/ RecvUpdateReceiveTab
    \/ RecvRefreshReceiveQr
    \/ RecvFetchQrImage
    \/ RecvPutApply
    \/ RecvProcessUiQueue

SpecReceive == RecvInit /\ [][RecvNext]_vars

StartedFor(address) ==
    /\ Len(recv'.threads) = Len(recv.threads) + 1
    /\ recv'.threads[Len(recv'.threads)] = NewThread(address)
    /\ \A k \in DOMAIN recv.threads : recv'.threads[k] = recv.threads[k]

\* C20: for an address to show, update_receive_tab starts no fetch when the
\* address is the one shown last and its image is cached, and starts one
\* when the address differs from the one shown last or when its image is
\* not cached, as after Refresh QR; Refresh QR removes the image of the
\* address shown last from the cache and no other; a failed fetch makes one
\* request, caches nothing, ends with the status QR unavailable and starts
\* no other fetch.
C20_QrFetchedWhenNeeded ==
    [][LET o == recv'.out
           shown == o.address # None /\ o.address[1] \in StartsWithR
       IN  /\ (o.op = "update_receive_tab" /\ recv.built /\ shown)
                => /\ (o.address = recv.last_address
                       /\ o.address[1] \in recv.cache)
                        => recv'.threads = recv.threads
                   /\ (o.address # recv.last_address
                       \/ o.address[1] \notin recv.cache)
                        => StartedFor(o.address[1])
                   /\ recv'.cache = recv.cache
           /\ (o.op = "refresh_receive_qr" /\ recv.last_address # None)
                => /\ recv'.cache = recv.cache \ {recv.last_address[1]}
                   /\ StartedFor(recv.last_address[1])
           /\ (o.op = "_fetch_qr_image")
                => \A k \in DOMAIN recv'.threads :
                      recv'.threads[k].requests <= 1
           /\ (o.op = "apply" /\ o.image = None)
                => /\ recv'.cache = recv.cache
                   /\ recv'.status = "QR unavailable"
                   /\ recv'.threads = recv.threads
                   /\ recv'.queue = Tail(recv.queue)]_vars

\* C20 witness: Refresh QR has removed the cached image of the address shown
\* and a fetch for it has started, while the image of the other address
\* stays cached.
C20_Witness ==
    /\ recv.out.op = "refresh_receive_qr"
    /\ recv.out.had
    /\ recv.last_address = Some("rDest")
    /\ recv.cache = {"rMin"}
    /\ recv.threads = <<NewThread("rDest")>>

(***************************************************************************)
(* gui.py: the explorer links.  A link is written as its host, the path    *)
(* under it and the address or hash that ends it.                          *)
(***************************************************************************)

Url(host, path, id) == [host |-> host, path |-> path, id |-> id]

\* The network of the active wallet as the store may hold it, and
\* str.lower() of it.
LinkNetworks ==
    {"mainnet", "testnet", "devnet", "MAINNET", "Devnet", "custom", ""}
Lower(text) ==
    CASE text = "MAINNET" -> "mainnet"
      [] text = "Devnet" -> "devnet"
      [] OTHER -> text
LinkAddresses == {"", "rDest", "rMin", "rShort", "rLong"}
Hashes == {"H1", "H2", "H3"}

\* _build_explorer_url(address, network)
BuildExplorerUrl(address, network) ==
    LET net == Lower(IF network = "" THEN "mainnet" ELSE network)
    IN  IF address = "" THEN None
        ELSE IF net = "mainnet"
        THEN Some(Url("livenet.xrpl.org", "accounts", address))
        ELSE IF net = "testnet"
        THEN Some(Url("testnet.xrpl.org", "accounts", address))
        ELSE IF net = "devnet"
        THEN Some(Url("devnet.xrpl.org", "accounts", address))
        ELSE Some(Url("xrpscan.com", "account", address))

\* open_in_explorer(): active is the active wallet record, None when no
\* wallet is active; opens tells whether webbrowser.open returns.
OpenInExplorer(active, opens) ==
    IF active = None \/ active[1].address = ""
    THEN [url |-> None, msg |-> "Select a wallet to open in the explorer"]
    ELSE LET url == BuildExplorerUrl(active[1].address, active[1].network)
         IN  IF url = None
             THEN [url |-> None,
                   msg |-> "No explorer link available for this network."]
             ELSE [url |-> url,
                   msg |-> IF opens THEN "Opened explorer"
                           ELSE "Could not open explorer"]

\* open_selected_in_explorer(): selection is the row selected in the
\* history list, None when there is none.
OpenSelectedInExplorer(selection, active, opens) ==
    IF selection = None THEN [url |-> None, msg |-> "Select an entry first"]
    ELSE IF active = None THEN [url |-> None, msg |-> ""]
    ELSE [url |-> Some(Url(IF active[1].network = "mainnet"
                           THEN "livenet.xrpl.org" ELSE "testnet.xrpl.org",
                           "transactions", selection[1])),
          msg |-> IF opens THEN "Opened transaction in explorer"
                  ELSE "Could not open explorer"]

BaseInit ==
    /\ mw = NewManager
    /\ fs = [enc |-> None, legacy |-> None]
    /\ environ = NewEnviron
    /\ last = NoCall
    /\ faults = 0
    /\ gate = GatePassed
    /\ envl = EnvlIdle
    /\ ms = MsIdle /\ send = SendIdle /\ ledger = LedgerIdle
    /\ calls = Off /\ tools = Off /\ tags = Off /\ recv = Off

Base ==
    <<mw, fs, environ, last, faults, gate, envl, ms, send, ledger, calls,
      tools, tags, recv>>

LinksInit ==
    /\ BaseInit
    /\ links = [pc |-> "ready"]
    /\ dec = Off /\ ui = Off /\ wk = Off /\ dlg = Off /\ LateIdle

Linked(kind, active, id, out) ==
    /\ links' = [pc |-> "done", kind |-> kind, active |-> active, id |-> id,
                 url |-> out.url, msg |-> out.msg]
    /\ UNCHANGED <<Base, dec, ui, wk, dlg, late>>

ActiveWallets ==
    {None} \cup {Some([address |-> a, network |-> n]) :
                    a \in LinkAddresses, n \in LinkNetworks}

LinksOpenInExplorer ==
    \E active \in ActiveWallets, opens \in BOOLEAN :
        Linked("account", active, None, OpenInExplorer(active, opens))

LinksOpenSelectedInExplorer ==
    \E selection \in {None} \cup {Some(h) : h \in Hashes},
       active \in {None} \cup {Some([address |-> "rDest", network |-> n]) :
                                  n \in LinkNetworks},
       opens \in BOOLEAN :
        Linked("transaction", active, selection,
               OpenSelectedInExplorer(selection, active, opens))

LinksNext ==
    \/ LinksOpenInExplorer
    \/ LinksOpenSelectedInExplorer

SpecLinks == LinksInit /\ [][LinksNext]_vars

\* C21: a link that is built uses the host of the network of the wallet:
\* livenet.xrpl.org for mainnet, testnet.xrpl.org for testnet,
\* devnet.xrpl.org for devnet and xrpscan.com for any other value, for an
\* account and for a transaction alike; no link is built for an empty
\* address.
C21_LinkUsesNetworkHost ==
    links.pc = "done"
        => /\ links.url # None
                => links.url[1].host =
                     CASE links.active[1].network = "mainnet"
                            -> "livenet.xrpl.org"
                       [] links.active[1].network = "testnet"
                            -> "testnet.xrpl.org"
                       [] links.active[1].network = "devnet"
                            -> "devnet.xrpl.org"
                       [] OTHER -> "xrpscan.com"
           /\ (links.kind = "account" /\ links.active # None
               /\ links.active[1].address = "")
                => links.url = None

(***************************************************************************)
(* decrypt_python_wallet.py: one run of the utility, a step at a time.     *)
(* Keys, MACs and ciphertexts are written as what they were made from, so  *)
(* that two of them are equal exactly when their ingredients are; ops is   *)
(* a ghost, the operations performed so far.                               *)
(***************************************************************************)

DecIterations == 390000
Pbkdf2(password, salt) ==
    [kdf |-> "PBKDF2-SHA256", password |-> password, salt |-> salt,
     iterations |-> DecIterations]
HmacHex(key, data) == [hmac |-> key, data |-> data, hex |-> "lower"]
HmacRaw(key, data) == [hmac |-> key, data |-> data]
AesCtrEncrypt(key, nonce, plaintext) ==
    [aes |-> key, nonce |-> nonce, plaintext |-> plaintext]
\* Decrypting under another key or nonce gives bytes that are not UTF-8.
AesCtrDecrypt(key, nonce, ciphertext) ==
    IF ciphertext.aes = key /\ ciphertext.nonce = nonce
    THEN ciphertext.plaintext ELSE "bytes"

\* The file as the Python wallet wrote it under a password.
PythonEnvelope(plaintext, password) ==
    LET key == Pbkdf2(password, "salt1")
        ciphertext == AesCtrEncrypt(HmacRaw(key, "nonce1"), "nonce1",
                                    plaintext)
    IN  [salt |-> "salt1", nonce |-> "nonce1", ciphertext |-> ciphertext,
         mac |-> HmacHex(key, <<"salt1", "nonce1", ciphertext>>),
         shape |-> "ok"]

\* The plaintexts: a wallet document, the empty document, text that is not
\* JSON, bytes that are not UTF-8.
Plaintexts == {"wallets", "{}", "text", "bytes"}
DecPasswords == {"pw1", "pw2"}

\* What may have become of the file since.
Tampered(envelope) ==
    {envelope,
     [envelope EXCEPT !.mac = [@ EXCEPT !.hex = "flipped"]],
     [envelope EXCEPT !.mac = [@ EXCEPT !.hex = "upper"]],
     [envelope EXCEPT !.ciphertext = [@ EXCEPT !.plaintext = "wallets2"]],
     [envelope EXCEPT !.nonce = "nonce2"],
     [envelope EXCEPT !.shape = "no mac"],
     [envelope EXCEPT !.shape = "not hex"]}
WalletFiles ==
    {None, Some([shape |-> "not json"])}
        \cup {Some(e) : e \in UNION {Tampered(PythonEnvelope(p, w)) :
                                        p \in Plaintexts, w \in DecPasswords}}

Did(d, op) == [d EXCEPT !.ops = Append(@, op)]
Failed(d) ==
    [d EXCEPT !.pc = "main", !.wallet_data = None,
              !.out = Append(@, "ERROR: Failed to decrypt wallet")]

\* main(), lines 70-76
MainStart(d, password) ==
    IF d.file = None
    THEN [d EXCEPT !.pc = "done", !.out = Append(@, "Wallet file not found")]
    ELSE [d EXCEPT !.pc = "read", !.password = Some(password)]

\* decrypt_wallet_file, lines 18-25
ReadEnvelope(d) ==
    IF d.file[1].shape = "not json" THEN Failed(Did(d, "json.load"))
    ELSE IF d.file[1].shape = "not hex"
    THEN Failed(Did(Did(d, "json.load"), "fromhex"))
    ELSE IF d.file[1].shape = "no mac"
    THEN Failed(Did(Did(d, "json.load"), "fromhex"))
    ELSE [Did(Did(d, "json.load"), "fromhex") EXCEPT !.pc = "verify"]

\* Mutant: the MAC is computed and the result of the comparison is ignored.
VerifyMacIgnored(d) ==
    LET e == d.file[1]
        key == Pbkdf2(d.password[1], e.salt)
    IN  [Did(Did(Did(d, "pbkdf2"), "hmac"), "compare") EXCEPT
            !.key = Some(key), !.pc = "decrypt"]

\* decrypt_wallet_file, lines 28-45
VerifyMac(d) ==
    LET e == d.file[1]
        key == Pbkdf2(d.password[1], e.salt)
        calculated_mac == HmacHex(key, <<e.salt, e.nonce, e.ciphertext>>)
        compared == Did(Did(Did(d, "pbkdf2"), "hmac"), "compare")
    IN  IF calculated_mac # e.mac
        THEN [compared EXCEPT
                !.pc = "main", !.wallet_data = None,
                !.out = Append(@, "ERROR: Invalid password or corrupted wallet file")]
        ELSE [compared EXCEPT !.key = Some(key), !.pc = "decrypt"]

\* decrypt_wallet_file, lines 48-59
Decrypt(d) ==
    LET e == d.file[1]
        hmac_key == HmacRaw(d.key[1], e.nonce)
    IN  [Did(Did(d, "hmac"), "aes") EXCEPT
            !.plaintext = Some(AesCtrDecrypt(hmac_key, e.nonce, e.ciphertext)),
            !.pc = "parse"]

\* decrypt_wallet_file, lines 62-67
ParseJson(d) ==
    IF d.plaintext[1] = "bytes" THEN Failed(Did(d, "decode"))
    ELSE IF d.plaintext[1] = "text"
    THEN Failed(Did(Did(d, "decode"), "json.loads"))
    ELSE [Did(Did(d, "decode"), "json.loads") EXCEPT
            !.wallet_data = d.plaintext, !.pc = "main"]

\* main(), lines 80-92: the empty document is not truthy.
MainExport(d) ==
    IF d.wallet_data # None /\ d.wallet_data[1] # "{}"
    THEN [Did(d, "json.dump") EXCEPT
            !.pc = "done", !.export = d.wallet_data,
            !.out = Append(@, "Wallet data exported")]
    ELSE [d EXCEPT !.pc = "done",
                   !.out = Append(@, "Failed to decrypt wallet. Please check your password.")]

DecInit ==
    /\ BaseInit
    /\ \E file \in WalletFiles, export \in {None, Some("old export")} :
        dec = [pc |-> "start", file |-> file, password |-> None,
               key |-> None, plaintext |-> None, wallet_data |-> None,
               export |-> export, ops |-> <<>>, out |-> <<>>]
    /\ links = Off /\ ui = Off /\ wk = Off /\ dlg = Off /\ LateIdle

DecStep(d) == dec' = d /\ UNCHANGED <<Base, links, ui, wk, dlg, late>>

DecMainStart ==
    /\ dec.pc = "start"
    /\ \E password \in DecPasswords : DecStep(MainStart(dec, password))
DecReadEnvelope == dec.pc = "read" /\ DecStep(ReadEnvelope(dec))
DecVerifyMac == dec.pc = "verify" /\ DecStep(VerifyMac(dec))
DecDecrypt == dec.pc = "decrypt" /\ DecStep(Decrypt(dec))
DecParseJson == dec.pc = "parse" /\ DecStep(ParseJson(dec))
DecMainExport == dec.pc = "main" /\ DecStep(MainExport(dec))

DecNext ==
    \/ DecMainStart
    \/ DecReadEnvelope
    \/ DecVerifyMac
    \/ DecDecrypt
    \/ DecParseJson
    \/ DecMainExport

SpecDecrypt == DecInit /\ [][DecNext]_vars

Done(d, op) == \E i \in DOMAIN d.ops : d.ops[i] = op
MacMatches(d) ==
    /\ d.file # None /\ d.file[1].shape # "not json" /\ d.password # None
    /\ d.file[1].mac =
         HmacHex(Pbkdf2(d.password[1], d.file[1].salt),
                 <<d.file[1].salt, d.file[1].nonce, d.file[1].ciphertext>>)
ParsesAsJson(d) ==
    /\ d.file # None /\ d.file[1].shape # "not json"
    /\ d.file[1].ciphertext.plaintext \in {"wallets", "wallets2", "{}"}

\* C22: an AES operation is performed only after the comparison, and only
\* when the recomputed MAC equals the provided one; wallet data is returned
\* only then; the export file is written only when the MAC matched and the
\* plaintext parsed as JSON, and stays as it was in every other run.
C22_MacBeforeAes ==
    [][/\ (Done(dec', "aes") /\ ~Done(dec, "aes"))
            => Done(dec, "compare") /\ MacMatches(dec)
       /\ dec'.wallet_data # None => MacMatches(dec')
       /\ dec'.export # dec.export
            => /\ MacMatches(dec) /\ ParsesAsJson(dec)
               /\ Done(dec, "aes") /\ Done(dec, "json.loads")
       /\ (dec'.pc = "done" /\ dec.wallet_data = None)
            => dec'.export = dec.export]_vars

\* C22 witness: a run in which the MAC differed has ended without an AES
\* operation and with the export file as it was.
C22_Witness ==
    /\ dec.pc = "done"
    /\ dec.file # None /\ dec.file[1].shape # "not json"
    /\ dec.file[1].shape = "ok"
    /\ ~MacMatches(dec)
    /\ Done(dec, "compare") /\ ~Done(dec, "aes")
    /\ dec.export = Some("old export")

\* C23: when account_tx succeeds with n transactions that each carry a tx
\* body the result is the n records of these transactions, in their order;
\* when it succeeds with no transaction on a network other than mainnet the
\* result is the empty list, not an error entry.
C23_OneRecordPerTransaction ==
    LET a == ledger.call.args
        r == ledger.call.result
    IN  (ledger.call.op = "get_transaction_history" /\ r.kind # "raised")
        => /\ (a.response = "transactions"
               /\ \A i \in DOMAIN a.transactions : a.transactions[i] # None)
                => /\ r.kind = "value"
                   /\ r.records = [i \in DOMAIN a.transactions |->
                                      [hash |-> a.transactions[i][1]]]
           /\ (a.response = "empty" /\ ledger.manager.network # "mainnet")
                => r.kind = "value" /\ r.records = <<>>

(***************************************************************************)
(* gui.py: the UI queue.  Workers put callbacks with run_on_ui_thread; the *)
(* poll _process_ui_queue, armed with root.after(50, ...), takes them out  *)
(* and runs them.  A callback carries the number of its put (a ghost);     *)
(* executed and log are ghosts: the callbacks run, in the order they ran,  *)
(* and those whose error was printed.                                      *)
(***************************************************************************)

MaxCallbacks == 4

\* Mutant: the callback is put in front of the waiting ones.
RunOnUiThreadInFront(u, i) ==
    [u EXCEPT !.queue = <<[id |-> u.puts + 1,
                           raises |-> Head(u.threads[i])]>> \o @,
              !.puts = @ + 1,
              !.threads = IF Len(u.threads[i]) > 1
                          THEN [@ EXCEPT ![i] = Tail(@)]
                          ELSE [k \in 1..(Len(@) - 1) |->
                                   IF k < i THEN @[k] ELSE @[k + 1]]]

\* run_on_ui_thread(callback), called by worker i: Queue.put.  A worker
\* ends after its last put.
RunOnUiThread(u, i) ==
    [u EXCEPT !.queue = Append(@, [id |-> u.puts + 1,
                                   raises |-> Head(u.threads[i])]),
              !.puts = @ + 1,
              !.threads = IF Len(u.threads[i]) > 1
                          THEN [@ EXCEPT ![i] = Tail(@)]
                          ELSE [k \in 1..(Len(@) - 1) |->
                                   IF k < i THEN @[k] ELSE @[k + 1]]]

\* Mutant: no try statement around the callback, the error ends the poll.
ProcessUiQueueUncaught(u) ==
    IF u.queue = <<>> THEN [u EXCEPT !.poll = "armed"]
    ELSE [u EXCEPT !.queue = Tail(@),
                   !.executed = Append(@, Head(u.queue).id),
                   !.poll = IF Head(u.queue).raises THEN "ended" ELSE @]

\* _process_ui_queue(), one turn of its loop: get_nowait() and the call of
\* the callback, its error printed; on Empty the finally clause arms the
\* poll again.
ProcessUiQueue(u) ==
    IF u.queue = <<>> THEN [u EXCEPT !.poll = "armed"]
    ELSE [u EXCEPT !.queue = Tail(@),
                   !.executed = Append(@, Head(u.queue).id),
                   !.log = IF Head(u.queue).raises
                           THEN Append(@, Head(u.queue).id) ELSE @]

\* ModernXRPWalletGUI.__init__, lines 486 and 497.
UiInit ==
    /\ BaseInit
    /\ ui = [threads |-> <<>>, queue |-> <<>>, poll |-> "armed", puts |-> 0,
             planned |-> 0, executed |-> <<>>, log |-> <<>>]
    /\ links = Off /\ dec = Off /\ wk = Off /\ dlg = Off /\ LateIdle

UiStep(u) == ui' = u /\ UNCHANGED <<Base, links, dec, wk, dlg, late>>

\* threading.Thread(target=..., daemon=True).start(): the worker will put
\* one or two callbacks, each of which may raise when it is run.
UiStartWorker ==
    \E callbacks \in UNION {[1..n -> BOOLEAN] : n \in 1..2} :
        /\ ui.planned + Len(callbacks) <= MaxCallbacks
        /\ UiStep([ui EXCEPT !.threads = Append(@, callbacks),
                             !.planned = @ + Len(callbacks)])

UiRunOnUiThread ==
    \E i \in DOMAIN ui.threads : UiStep(RunOnUiThread(ui, i))

\* The timer set with root.after(50, self._process_ui_queue) fires.
UiTimer ==
    /\ ui.poll = "armed"
    /\ UiStep([ui EXCEPT !.poll = "draining"])

UiProcessUiQueue ==
    /\ ui.poll = "draining"
    /\ UiStep(ProcessUiQueue(ui))

UiNext ==
    \/ UiStartWorker
    \/ UiRunOnUiThread
    \/ UiTimer
    \/ UiProcessUiQueue

SpecUi == UiInit /\ [][UiNext]_vars

\* The event loop keeps running: the timer fires and the poll goes on.
SpecUiLive ==
    /\ UiInit /\ [][UiNext]_vars
    /\ WF_vars(UiTimer) /\ WF_vars(UiProcessUiQueue)

C28_EveryCallbackRuns ==
    /\ \A n \in 1..MaxCallbacks : (ui.puts >= n) ~> (Len(ui.executed) >= n)
    /\ []<>(ui.poll = "armed")

\* C28 witness: the first callback raised and was logged, the one behind
\* it has run and the poll is armed again.
C28_Witness ==
    /\ ui.log = <<1>>
    /\ Len(ui.executed) = 2
    /\ ui.poll = "armed"

(***************************************************************************)
(* gui.py: the UI thread's handlers and the worker threads they start.     *)
(* What a step touches is recorded, not computed: "rpc" is a request to    *)
(* the ledger server, "http" a request to a web service, "ui_read" and     *)
(* "ui_write" the use of a widget or a Tk variable, "image" the making of  *)
(* a Tk image, "sign" signing with the local key, "put" run_on_ui_thread,  *)
(* "model_read" and "model_write" the use of MultiWalletManager's data.    *)
(* A worker's body is a table of statements: what the statement touches,   *)
(* the statement after it, and the statements an exception raised in it    *)
(* leads to ("unhandled": out of the thread's function).                   *)
(***************************************************************************)

MaxThreads == 1
MaxChanges == 1

Effects == {"rpc", "http", "ui_read", "ui_write", "image", "sign", "put", "model_read", "model_write"}

Statement(at, eff, next, onerr) == [at |-> at, eff |-> eff, next |-> next, onerr |-> onerr]

\* generate_thread, lines 936-984.
GenerateThread ==
    ("generate_test_wallet" :> Statement(939, {"rpc", "http"}, "put ask_name", {"put show_error"}))
    @@ ("put ask_name" :> Statement(974, {"put"}, "end", {}))
    @@ ("put show_error" :> Statement(983, {"put"}, "end", {}))

\* update_thread, lines 1803-1828.
UpdateThread ==
    ("temp_manager.get_network_info" :> Statement(1807, {"rpc"}, "put update_text_widget", {"put update_text_widget"}))
    @@ ("put update_text_widget" :> Statement(1826, {"put"}, "end", {}))

\* refresh_thread, lines 1858-1907.
RefreshThread ==
    ("manager.get_balance" :> Statement(1861, {"rpc"}, "manager.get_network_info", {"put apply_updates"}))
    @@ ("manager.get_network_info" :> Statement(1862, {"rpc"}, "put apply_updates", {"put apply_updates"}))
    @@ ("put apply_updates" :> Statement(1907, {"put"}, "end", {}))

\* balance_thread, lines 1914-1951.  The for statement is outside the try
\* statement; where it leads depends on the dictionary (BalanceTargets).
BalanceThread ==
    ("if not self.multi_wallet.wallets" :> Statement(1915, {"model_read"}, "self.multi_wallet.wallets.items()", {}))
    @@ ("self.multi_wallet.wallets.items()" :> Statement(1918, {"model_read"}, "for name, wallet_data", {}))
    @@ ("for name, wallet_data" :> Statement(1918, {"model_read"}, "get_or_create_manager, get_balance", {"unhandled"}))
    @@ ("get_or_create_manager, get_balance" :> Statement(1920, {"rpc", "model_read", "model_write"}, "put apply (balance)", {"put apply (balance)"}))
    @@ ("put apply (balance)" :> Statement(1949, {"put"}, "for name, wallet_data", {}))
    @@ ("put Wallet balances refreshed" :> Statement(1951, {"put"}, "end", {}))

\* worker of update_receive_tab with _fetch_qr_image, lines 1978-2006.
QrWorker ==
    ("requests.get" :> Statement(1996, {"http"}, "tk.PhotoImage", {"put QR error"}))
    @@ ("tk.PhotoImage" :> Statement(2003, {"image"}, "put apply (qr)", {"put QR error"}))
    @@ ("put QR error" :> Statement(2005, {"put"}, "put apply (qr)", {}))
    @@ ("put apply (qr)" :> Statement(1990, {"put"}, "end", {}))

\* send_thread, lines 2117-2152.
SendThreadBody ==
    ("manager.send_payment" :> Statement(2122, {"rpc"}, "put apply (send)", {"put apply (send)"}))
    @@ ("put apply (send)" :> Statement(2152, {"put"}, "end", {}))

\* history_thread, lines 2163-2245.  int(self.limit_var.get()) raises
\* ValueError (caught at 2171) or something else (caught at 2222).
HistoryThread ==
    ("int(self.limit_var.get())" :> Statement(2168, {"ui_read"}, "manager.get_transaction_history", {"put limit_var.set", "put apply (history)"}))
    @@ ("put limit_var.set" :> Statement(2173, {"put"}, "manager.get_transaction_history", {}))
    @@ ("manager.get_transaction_history" :> Statement(2175, {"rpc", "http"}, "put apply (history)", {"put apply (history)"}))
    @@ ("put apply (history)" :> Statement(2245, {"put"}, "end", {}))

\* create_thread, lines 2345-2378.
CreateThread ==
    ("manager.create_multisig_wallet" :> Statement(2351, {"rpc"}, "put apply (create)", {"put apply (create)"}))
    @@ ("put apply (create)" :> Statement(2378, {"put"}, "end", {}))

\* sign_thread, lines 2414-2459.
SignThread ==
    ("manager.sign_multisig_transaction" :> Statement(2421, {"sign"}, "put apply (sign)", {"put apply (sign)"}))
    @@ ("put apply (sign)" :> Statement(2459, {"put"}, "end", {}))

Bodies ==
    GenerateThread @@ UpdateThread @@ RefreshThread @@ BalanceThread @@ QrWorker
    @@ SendThreadBody @@ HistoryThread @@ CreateThread @@ SignThread

\* The dictionary self.wallets as CPython keeps it: the entries in the order
\* of insertion, a deleted one leaving a hole.
Hole == "<dummy>"
WkNames == {"a", "b"}
Used(entries) == Cardinality({k \in DOMAIN entries : entries[k] # Hole})
KeyAt(entries, name) == {k \in DOMAIN entries : entries[k] = name}

\* self.wallets[name] = wallet_data, lines 269 and 324.
WalletsSetItem(entries, name) ==
    IF KeyAt(entries, name) # {} THEN entries ELSE Append(entries, name)

\* del self.wallets[name], line 347.
WalletsDelItem(entries, name) ==
    [k \in DOMAIN entries |-> IF entries[k] = name THEN Hole ELSE entries[k]]

\* The entries an iterator at position pos still has to yield.
Remaining(entries, pos) == {k \in DOMAIN entries : k >= pos /\ entries[k] # Hole}
Least(S) == CHOOSE k \in S : \A j \in S : k <= j

NoThreadOut == [by |-> "nobody", unit |-> "", eff |-> {}, at |-> 0, raised |-> FALSE]

Thread(pc) == [pc |-> pc, used |-> 0, pos |-> 0]

\* Where the statement at t.pc can lead.  The dictionary iterator raises
\* RuntimeError when the number of entries is not the one it started with.
Targets(entries, t) ==
    CASE t.pc = "if not self.multi_wallet.wallets" ->
            IF Used(entries) = 0 THEN {"end"} ELSE {Bodies[t.pc].next}
      [] t.pc = "for name, wallet_data" ->
            IF Used(entries) # t.used THEN {"unhandled"}
            ELSE IF Remaining(entries, t.pos) = {} THEN {"put Wallet balances refreshed"}
            ELSE {Bodies[t.pc].next}
      [] OTHER -> {Bodies[t.pc].next} \cup Bodies[t.pc].onerr

\* Whether going from the statement at pc to target is by an exception.
Raised(entries, t, target) ==
    CASE t.pc = "for name, wallet_data" -> target = "unhandled"
      [] OTHER -> target \in Bodies[t.pc].onerr /\ (target # Bodies[t.pc].next \/ Bodies[t.pc].eff # {"put"})

\* One statement of worker i, leading to target.
WorkerStatement(w, i, target) ==
    LET t == w.threads[i]
        moved == CASE t.pc = "self.multi_wallet.wallets.items()" ->
                        [t EXCEPT !.pc = target, !.used = Used(w.entries), !.pos = 1]
                   [] t.pc = "for name, wallet_data" /\ target = Bodies[t.pc].next ->
                        [t EXCEPT !.pc = target, !.pos = Least(Remaining(w.entries, t.pos)) + 1]
                   [] OTHER -> [t EXCEPT !.pc = target]
        over == target \in {"end", "unhandled"}
    IN  [w EXCEPT !.threads = IF over
                              THEN [k \in 1..(Len(@) - 1) |-> IF k < i THEN @[k] ELSE @[k + 1]]
                              ELSE [@ EXCEPT ![i] = moved],
                  !.unhandled = @ \/ target = "unhandled",
                  !.out = [by |-> "worker", unit |-> t.pc, eff |-> Bodies[t.pc].eff,
                           at |-> Bodies[t.pc].at,
                           raised |-> Raised(w.entries, t, target)]]

\* A handler of the UI thread as one step: what it touches, and the worker
\* it starts (None: none).  ready: there is an active wallet and the form
\* passes the handler's tests; otherwise the handler shows a message or
\* sets a label and returns.
Handler(w, name, at, ready, eff, start) ==
    [w EXCEPT !.out = [by |-> "ui", unit |-> name,
                       eff |-> IF ready THEN eff ELSE {"ui_read", "ui_write"} \cap eff,
                       at |-> at, raised |-> FALSE],
              !.threads = IF ready /\ start # None THEN Append(@, Thread(start[1])) ELSE @]

CanStart(w) == Len(w.threads) < MaxThreads

\* The handlers, lines as given.
GenerateTestWalletDialog(w, ready) == Handler(w, "generate_test_wallet_dialog", 986, ready, {"ui_write"}, Some("generate_test_wallet"))
UpdateNetworkStatus(w, ready) == Handler(w, "update_network_status", 1830, ready, {}, Some("temp_manager.get_network_info"))
RefreshWalletInfo(w, ready) == Handler(w, "refresh_wallet_info", 1909, ready, {"model_read", "ui_write"}, Some("manager.get_balance"))
UpdateWalletBalances(w, ready) == Handler(w, "update_wallet_balances", 1953, ready, {}, Some("if not self.multi_wallet.wallets"))
UpdateReceiveTabWorker(w, ready) == Handler(w, "update_receive_tab", 1992, ready, {"ui_read", "ui_write"}, Some("requests.get"))
SendTransactionHandler(w, ready) == Handler(w, "send_transaction", 2092, ready, {"model_read", "ui_read", "ui_write", "rpc"}, Some("manager.send_payment"))
RefreshHistory(w, ready) == Handler(w, "refresh_history", 2247, ready, {"model_read", "ui_write"}, Some("int(self.limit_var.get())"))
CreateMultisig(w, ready) == Handler(w, "create_multisig", 2339, ready, {"model_read", "ui_read", "ui_write", "rpc"}, Some("manager.create_multisig_wallet"))
SignTransaction(w, ready) == Handler(w, "sign_transaction", 2461, ready, {"model_read", "ui_read", "ui_write"}, Some("manager.sign_multisig_transaction"))
RefreshMultisigStatusHandler(w, ready) == Handler(w, "refresh_multisig_status", 1457, ready, {"model_read", "ui_write", "rpc"}, None)
UpdateMultisigCostSummary(w, ready) == Handler(w, "update_multisig_cost_summary", 1570, ready, {"model_read", "ui_write", "rpc"}, None)
ApplySignerList(w, ready) == Handler(w, "apply_signer_list", 1598, ready, {"model_read", "ui_read", "ui_write", "rpc"}, None)
SignAsActiveWalletHandler(w, ready) == Handler(w, "sign_as_active_wallet", 1708, ready, {"model_read", "ui_write", "sign"}, None)
SubmitMultisigHandler(w, ready) == Handler(w, "submit_multisig_transaction_action", 1773, ready, {"model_read", "ui_write", "rpc"}, None)

\* The balance worker that a change of the wallet list starts through
\* update_wallet_balances; it is followed only while fewer than MaxThreads
\* workers are.
BalanceWorker(w) == IF CanStart(w) THEN Some("if not self.multi_wallet.wallets") ELSE None

\* add_wallet_dialog and remove_wallet: the dictionary changes on the UI
\* thread, then the balances are refreshed.
AddWalletHandler(w, name) ==
    [Handler(w, "add_wallet_dialog", 873, TRUE, {"model_write", "ui_write"}, BalanceWorker(w))
        EXCEPT !.entries = WalletsSetItem(@, name), !.changes = @ + 1]

RemoveWalletHandler(w, name) ==
    [Handler(w, "remove_wallet", 1001, TRUE, {"model_write", "ui_write"}, BalanceWorker(w))
        EXCEPT !.entries = WalletsDelItem(@, name), !.changes = @ + 1]

WorkersInit ==
    /\ BaseInit
    /\ \E entries \in {<<>>, <<"a">>, <<"a", "b">>} :
          wk = [entries |-> entries, threads |-> <<>>, changes |-> 0,
                unhandled |-> FALSE, out |-> NoThreadOut]
    /\ links = Off /\ dec = Off /\ ui = Off /\ dlg = Off /\ LateIdle

WkStep(w) == wk' = w /\ UNCHANGED <<Base, links, dec, ui, dlg, late>>

WkWorkerStatement ==
    \E i \in DOMAIN wk.threads : \E target \in Targets(wk.entries, wk.threads[i]) :
        WkStep(WorkerStatement(wk, i, target))

WkGenerateTestWalletDialog == CanStart(wk) /\ WkStep(GenerateTestWalletDialog(wk, TRUE))
WkUpdateNetworkStatus == CanStart(wk) /\ WkStep(UpdateNetworkStatus(wk, TRUE))
WkRefreshWalletInfo == CanStart(wk) /\ \E ready \in BOOLEAN : WkStep(RefreshWalletInfo(wk, ready))
WkUpdateWalletBalances == CanStart(wk) /\ WkStep(UpdateWalletBalances(wk, TRUE))
WkUpdateReceiveTab == CanStart(wk) /\ \E ready \in BOOLEAN : WkStep(UpdateReceiveTabWorker(wk, ready))
WkSendTransaction == CanStart(wk) /\ \E ready \in BOOLEAN : WkStep(SendTransactionHandler(wk, ready))
WkRefreshHistory == CanStart(wk) /\ \E ready \in BOOLEAN : WkStep(RefreshHistory(wk, ready))
WkCreateMultisig == CanStart(wk) /\ \E ready \in BOOLEAN : WkStep(CreateMultisig(wk, ready))
WkSignTransaction == CanStart(wk) /\ \E ready \in BOOLEAN : WkStep(SignTransaction(wk, ready))
WkRefreshMultisigStatus == \E ready \in BOOLEAN : WkStep(RefreshMultisigStatusHandler(wk, ready))
WkUpdateMultisigCostSummary == \E ready \in BOOLEAN : WkStep(UpdateMultisigCostSummary(wk, ready))
WkApplySignerList == \E ready \in BOOLEAN : WkStep(ApplySignerList(wk, ready))
WkSignAsActiveWallet == \E ready \in BOOLEAN : WkStep(SignAsActiveWalletHandler(wk, ready))
WkSubmitMultisig == \E ready \in BOOLEAN : WkStep(SubmitMultisigHandler(wk, ready))

WkAddWallet ==
    /\ wk.changes < MaxChanges
    /\ \E name \in WkNames : WkStep(AddWalletHandler(wk, name))

WkRemoveWallet ==
    /\ wk.changes < MaxChanges
    /\ \E name \in WkNames : KeyAt(wk.entries, name) # {} /\ WkStep(RemoveWalletHandler(wk, name))

WorkersNext ==
    \/ WkWorkerStatement
    \/ WkGenerateTestWalletDialog
    \/ WkUpdateNetworkStatus
    \/ WkRefreshWalletInfo
    \/ WkUpdateWalletBalances
    \/ WkUpdateReceiveTab
    \/ WkSendTransaction
    \/ WkRefreshHistory
    \/ WkCreateMultisig
    \/ WkSignTransaction
    \/ WkRefreshMultisigStatus
    \/ WkUpdateMultisigCostSummary
    \/ WkApplySignerList
    \/ WkSignAsActiveWallet
    \/ WkSubmitMultisig
    \/ WkAddWallet
    \/ WkRemoveWallet

SpecWorkers == WorkersInit /\ [][WorkersNext]_vars

\* C25: no statement of a worker reads or writes UI state: a widget, a Tk
\* variable or an image.
C25_WorkersLeaveUiAlone ==
    wk.out.by = "worker" => wk.out.eff \cap {"ui_read", "ui_write", "image"} = {}

\* C26: no handler of the UI thread makes a request to the ledger server or
\* an HTTP request.
C26_NoRequestOnUiThread ==
    wk.out.by = "ui" => wk.out.eff \cap {"rpc", "http"} = {}

\* C27: no worker ends by an exception that leaves its function: every
\* exception raised in a worker's body is caught there and followed by a
\* put on the UI queue.
C27_NoWorkerDiesUnhandled ==
    ~wk.unhandled


\* Whether the handler that made the step is one of those that need a
\* session.
NeedsSession ==
    MsSign \/ MsImport \/ MsCopySigningRequest \/ MsSaveSigningRequest \/ MsSubmit

\* C29: the multisig session begins only by a prepare that succeeds, with
\* no signatures and the quorum and signers of the status last read; while
\* there is none, sign, import, copy request, save request and submit
\* change nothing but the message shown; while there is one, only another
\* prepare changes its transaction, quorum and required signers, and a
\* signature collected adds the entry of its signer and takes none away;
\* the session ends only by a submission the ledger accepted, and a
\* rejected submission leaves it as it was.
C29_SessionLifecycle ==
    [][LET s == ms.session
           t == ms'.session
       IN  /\ (s = None /\ t # None)
                => /\ MsPrepare
                   /\ t[1].signatures = {}
                   /\ t[1].quorum = ms.status.quorum
                   /\ t[1].required_signers = ms.status.signers
           /\ (s = None /\ NeedsSession)
                => /\ [ms' EXCEPT !.out = ms.out] = ms
                   /\ ms'.out.msg # ""
                   /\ mw' = mw /\ fs' = fs
           /\ (s # None /\ t # None /\ ~MsPrepare)
                => /\ t[1].tx_json = s[1].tx_json
                   /\ t[1].quorum = s[1].quorum
                   /\ t[1].required_signers = s[1].required_signers
                   /\ s[1].signatures \subseteq t[1].signatures
                   /\ t[1].signatures # s[1].signatures
                        => /\ MsSign \/ MsImport
                           /\ Cardinality(t[1].signatures \ s[1].signatures) = 1
           /\ (s # None /\ t = None)
                => /\ MsSubmit
                   /\ ms'.out.handed
                   /\ ms'.out.msg = "Transaction submitted"
           /\ (s # None /\ MsSubmit /\ ms'.out.msg # "Transaction submitted")
                => t = s]_vars

\* C29 witness: a session holds both signatures after a submission that
\* the ledger rejected, and the status has since been read as not enabled.
C29_Witness ==
    /\ ms.session # None
    /\ ms.out.op = "submit" /\ ms.out.msg = "Failed to submit"
    /\ Cardinality(ms.session[1].signatures) = 2
    /\ ms.session[1].quorum = 2
    /\ ~ms.status.enabled

(***************************************************************************)
(* gui.py: the Add Wallet dialog (WalletDialog) and the two handlers of    *)
(* the welcome screen that add a wallet from a secret the user types.      *)
(***************************************************************************)

\* What the user types into the dialog; "" stands for a name that strip()
\* leaves empty.
DialogNames == {"", "carol", "alice"}
DialogForms ==
    {[name |-> n, secret |-> s, network |-> k] :
        n \in DialogNames, s \in SecretInputs, k \in Networks}

\* WalletDialog.__init__: the window is built and the constructor returns;
\* it does not wait for the window.
WalletDialogNew == [open |-> TRUE, result |-> None, msg |-> ""]

\* WalletDialog.add_wallet(), the "Add Wallet" button.
WalletDialogAddWallet(d, form) ==
    IF form.name = "" THEN [d EXCEPT !.msg = "Please enter a wallet name"]
    ELSE IF Strip(form.secret).len = 0
    THEN [d EXCEPT !.msg = "Please enter a private key or seed"]
    ELSE [d EXCEPT !.open = FALSE, !.msg = "",
                   !.result = Some([form EXCEPT !.secret = Strip(form.secret)])]

\* WalletDialog.cancel()
WalletDialogCancel(d) == [d EXCEPT !.open = FALSE, !.msg = ""]

\* add_wallet_dialog() from line 863 on: result is dialog.result as the
\* handler reads it.
AddWalletDialog(w, result, io_ok, salt, nonce) ==
    IF result = None THEN Ret(w, "None", "no result")
    ELSE LET p == create_wallet_from_secret(result[1].secret, None, None)
             r == AddWallet(w, result[1].name, p.info.secret, result[1].network,
                            Some(p.info), io_ok, salt, nonce)
         IN  IF ~p.ok THEN Ret(w, "None", "Invalid Secret")
             ELSE IF r.ret = "True" THEN Ret(r.w, "None", "Success")
             ELSE Ret(r.w, "None", "Failed to add wallet")

\* import_private_key_dialog(): secret and name are None when the prompt is
\* cancelled or left empty.
ImportPrivateKeyDialog(w, secret, name, network, io_ok, salt, nonce) ==
    IF secret = None THEN Ret(w, "None", "no secret")
    ELSE LET p == create_wallet_from_secret(secret[1], None, None)
             r == AddWallet(w, name[1], p.info.secret, network, Some(p.info),
                            io_ok, salt, nonce)
         IN  IF ~p.ok THEN Ret(w, "None", "Invalid Secret")
             ELSE IF name = None THEN Ret(w, "None", "no name")
             ELSE IF r.ret = "True" THEN Ret(r.w, "None", "Success")
             ELSE Ret(r.w, "None", "Failed to import wallet")

\* The welcome screen of an unlocked store holding alice and bob.
DialogInit ==
    /\ mw = Unlocked(TwoWalletsDir).mw
    /\ fs = TwoWalletsDir
    /\ environ = Unlocked(TwoWalletsDir).env
    /\ last = NoCall
    /\ faults = 0
    /\ gate = GatePassed
    /\ envl = EnvlIdle /\ ms = MsIdle /\ send = SendIdle /\ ledger = LedgerIdle
    /\ calls = Off /\ tools = Off /\ tags = Off /\ recv = Off
    /\ links = Off /\ dec = Off /\ ui = Off /\ wk = Off /\ LateIdle
    /\ dlg = [open |-> FALSE, result |-> None, msg |-> ""]

OtherThanDialog == <<gate, envl, ms, send, ledger, calls, tools, tags, recv, links, dec, ui, wk, late>>

\* "Add Wallet" on the welcome screen: the dialog is built and
\* add_wallet_dialog goes on with the result the new dialog has.  The
\* dialog holds the grab, so no handler of the main window starts while it
\* is open.
DlgAddWalletDialog ==
    /\ ~dlg.open
    /\ \E in \in Inputs :
        Commit(AddWalletDialog(TheWorld, WalletDialogNew.result, in[1], in[2], in[3]))
    /\ dlg' = WalletDialogNew
    /\ UNCHANGED OtherThanDialog

DlgAddWallet ==
    /\ dlg.open
    /\ \E form \in DialogForms : dlg' = WalletDialogAddWallet(dlg, form)
    /\ StoreUnchanged /\ faults' = faults
    /\ UNCHANGED OtherThanDialog

DlgCancel ==
    /\ dlg.open
    /\ dlg' = WalletDialogCancel(dlg)
    /\ StoreUnchanged /\ faults' = faults
    /\ UNCHANGED OtherThanDialog

DlgImportPrivateKey ==
    /\ ~dlg.open
    /\ \E secret \in {None} \cup {Some(s) : s \in {SeedA, HexKey, Junk}},
          name \in {None, Some("alice")}, network \in Networks, in \in Inputs :
        Commit(ImportPrivateKeyDialog(TheWorld, secret, name, network, in[1], in[2], in[3]))
    /\ dlg' = dlg
    /\ UNCHANGED OtherThanDialog

DialogNext ==
    \/ DlgAddWalletDialog
    \/ DlgAddWallet
    \/ DlgCancel
    \/ DlgImportPrivateKey

SpecDialog == DialogInit /\ [][DialogNext]_vars

\* The wallet that create_wallet_from_secret makes of the dialog's secret
\* is stored under the dialog's name, in memory and in wallets.enc.
Stored(form) ==
    LET p == create_wallet_from_secret(form.secret, None, None)
    IN  /\ form.name \in DOMAIN mw.wallets
        /\ mw.wallets[form.name].secret = p.info.secret
        /\ mw.wallets[form.name].network = form.network
        /\ form.name \in DOMAIN OnDisk(fs, mw)[1].wallets

\* C30: once the Add Wallet dialog has been closed by its "Add Wallet"
\* button with a name that is not empty and a secret that
\* create_wallet_from_secret accepts, the wallet is in the store, in
\* memory and on disk.
C30_SubmittedWalletIsStored ==
    (~dlg.open /\ dlg.result # None
        /\ create_wallet_from_secret(dlg.result[1].secret, None, None).ok)
    => Stored(dlg.result[1])

(***************************************************************************)
(* gui.py: MultiWalletManager, its wallet operations called in any order   *)
(* on a data directory that may refuse a write, with initialize called     *)
(* again under another password.                                           *)
(***************************************************************************)

\* What add_wallet is called with: a secret and the network chosen for it.
ApiWalletInputs ==
    {<<Padded(SeedA), "testnet">>, <<HexKey, "mainnet">>, <<Junk, "testnet">>}

ApiInit ==
    /\ mw = NewManager
    /\ fs \in InitialDirs
    /\ environ = NewEnviron
    /\ last = NoCall
    /\ faults = 0
    /\ gate = Off /\ envl = EnvlIdle
    /\ ms = MsIdle /\ send = SendIdle /\ ledger = LedgerIdle
    /\ calls = [pc |-> "on", op |-> "", args |-> <<>>]
    /\ tools = Off /\ tags = Off /\ recv = Off /\ RestIdle

\* Whether this call may find the data directory refusing the write.
MayFail(io_ok) == io_ok \/ faults < MaxFaults

ApiInitialize ==
    \E password \in {PwA, PwB, PwShort}, io_ok \in BOOLEAN :
        /\ MayFail(io_ok)
        /\ Called("initialize", [password |-> password],
                  Initialize(TheWorld, password, io_ok, "salt1", "nonce1"))

ApiAddWallet ==
    \E name \in Names, input \in ApiWalletInputs, io_ok \in BOOLEAN :
        /\ MayFail(io_ok)
        /\ Called("add_wallet",
                  [name |-> name, secret |-> input[1], network |-> input[2]],
                  AddWallet(TheWorld, name, input[1], input[2], None,
                            io_ok, "salt1", "nonce1"))

ApiRemoveWallet ==
    \E name \in Names, io_ok \in BOOLEAN :
        /\ MayFail(io_ok)
        /\ Called("remove_wallet", [name |-> name],
                  RemoveWallet(TheWorld, name, io_ok, "salt1", "nonce1"))

ApiSetActiveWallet ==
    \E name \in Names, io_ok \in BOOLEAN :
        /\ MayFail(io_ok)
        /\ Called("set_active_wallet", [name |-> name],
                  SetActiveWallet(TheWorld, name, io_ok, "salt1", "nonce1"))

ApiSaveWallets ==
    Called("save_wallets", <<>>, SaveWallets(TheWorld, TRUE, "salt1", "nonce1"))

ApiNext ==
    \/ ApiInitialize
    \/ ApiAddWallet
    \/ ApiRemoveWallet
    \/ ApiSetActiveWallet
    \/ ApiSaveWallets

SpecApi == ApiInit /\ [][ApiNext]_vars


\* What identifies a stored wallet to its owner.
Identity(wallet) ==
    [secret |-> wallet.secret, address |-> wallet.address, network |-> wallet.network]

\* C33: a call other than remove_wallet(name) leaves the wallet stored
\* under name stored with the same secret, address and network, and
\* add_wallet under a name that is stored returns False.
C33_StoredWalletKept ==
    [][IsInitialized(mw) =>
        /\ \A n \in DOMAIN mw.wallets :
            \/ calls'.op = "remove_wallet" /\ calls'.args.name = n
            \/ /\ n \in DOMAIN mw'.wallets
               /\ Identity(mw'.wallets[n]) = Identity(mw.wallets[n])
        /\ (calls'.op = "add_wallet" /\ calls'.args.name \in DOMAIN mw.wallets)
            => last'.ret = "False"]_vars

\* C34: while a wallet is active WALLET_SECRET and NETWORK hold its stored
\* secret and network; while none is active WALLET_SECRET is not set (the
\* process starts without it and only the store sets it, to the secret of
\* a stored wallet).
C34_EnvironMatchesActive ==
    IsInitialized(mw) =>
        IF mw.active_wallet # None /\ mw.active_wallet[1] \in DOMAIN mw.wallets
        THEN /\ environ.WALLET_SECRET = Some(mw.wallets[mw.active_wallet[1]].secret)
             /\ environ.NETWORK = Some(mw.wallets[mw.active_wallet[1]].network)
        ELSE environ.WALLET_SECRET = None

\* C35: on an initialized store the wallet map, the secret cache and the
\* manager map hold the same names, and active_wallet is absent or one of
\* them.
C35_MapsAgree ==
    IsInitialized(mw) =>
        /\ DOMAIN mw.secret_cache = DOMAIN mw.wallets
        /\ DOMAIN mw.wallet_managers = DOMAIN mw.wallets
        /\ mw.active_wallet = None \/ mw.active_wallet[1] \in DOMAIN mw.wallets

\* C35 witness: the data directory has refused a write, two wallets with
\* different secrets are stored and set_active_wallet has just made bob
\* the active one.
C35_Witness ==
    /\ IsInitialized(mw)
    /\ faults = MaxFaults
    /\ DOMAIN mw.wallets = Names
    /\ mw.active_wallet = Some("bob")
    /\ mw.wallets["alice"].secret # mw.wallets["bob"].secret
    /\ calls.op = "set_active_wallet" /\ last.ret = "True"

\* C36: on an initialized store add_wallet returns True or False, and when
\* it returns False the wallet map, the secret cache, the manager map and
\* wallets.enc are as before the call.
C36_FailedAddChangesNothing ==
    [][(calls'.op = "add_wallet" /\ IsInitialized(mw)) =>
        /\ last'.ret \in {"True", "False"}
        /\ last'.ret = "False" =>
            /\ mw'.wallets = mw.wallets
            /\ mw'.secret_cache = mw.secret_cache
            /\ mw'.wallet_managers = mw.wallet_managers
            /\ fs' = fs]_vars

\* C37: once the manager is initialized the password it saves under stays
\* the one it was unlocked or created with.
C37_PasswordFixedOnceInitialized ==
    [][IsInitialized(mw) => mw'.password = mw.password]_vars


(***************************************************************************)
(* The signer list draft of the Multi-Sig tab (gui.py 1450-1607): the      *)
(* entries the user collects with the signer dialog, the quorum typed into *)
(* the spin box, and apply_signer_list, which hands them to                *)
(* create_multisig_wallet.  The store is unlocked, the workspace of the    *)
(* active wallet is open and the handlers run one at a time on the UI      *)
(* thread.                                                                 *)
(***************************************************************************)

\* The longest draft followed.
MaxSigners == 2

\* The texts typed into the quorum spin box, and int() of them: None when
\* int() raises ValueError.
QuorumTexts == {"abc", "0", "2", "3"}
QuorumInt(text) ==
    CASE text = "0" -> Some(0)
      [] text = "2" -> Some(2)
      [] text = "3" -> Some(3)
      [] OTHER -> None

\* What the user types into the signer dialog.
SignerForms ==
    [label : {""}, address : {"", "rDest"}, tag : {""},
     weight : {"", "0", "7", "abc"}]

\* dialog.result once wait_window returns: None when the dialog was
\* cancelled, else what save() stored.
SignerDialogResults ==
    {None} \cup {SignerEntrySave(f.label, f.address, f.tag, f.weight) :
                    f \in SignerForms}

\* The draft entries refresh_multisig_status builds from a status.
DraftFromStatus(status) ==
    [i \in 1..Len(status.signers) |->
        [label |-> "account[:12]...",
         address |-> status.signers[i].account, tag |-> "",
         weight |-> status.signers[i].weight]]

\* The payload apply_signer_list builds from the draft.
SignerPayload(draft) ==
    [i \in 1..Len(draft) |-> SignerEntry(draft[i].address, draft[i].weight)]

RECURSIVE SumWeights(_)
SumWeights(entries) ==
    IF entries = <<>> THEN 0
    ELSE Head(entries).weight + SumWeights(Tail(entries))

\* What a handler of the draft leaves behind for the properties to read:
\* the message box it showed, the draft and the quorum text it found
\* (ghosts) and what it handed to create_multisig_wallet.
SignerOut(s, op, msg) ==
    [op |-> op, msg |-> msg, draft |-> s.draft, quorum |-> s.quorum,
     submitted |-> None]
NoSignerOut ==
    [op |-> "", msg |-> "", draft |-> <<>>, quorum |-> "", submitted |-> None]

\* refresh_multisig_status()
RefreshSignerDraft(s, m, reachable) ==
    LET manager == GetActiveManager(m)
        status == GetSignerList(s, manager[1], reachable)
    IN  IF NoWallet(manager) THEN s
        ELSE [s EXCEPT !.status = status,
                       !.draft = IF ~status.enabled THEN <<>>
                                 ELSE DraftFromStatus(status)]

\* add_signer_entry()
AddSignerEntry(s, result) ==
    IF result = None THEN s
    ELSE [s EXCEPT !.draft = Append(@, result[1])]

\* edit_signer_entry(): selection is the row selected, None without one.
EditSignerEntry(s, selection, result) ==
    IF selection = None THEN s
    ELSE IF ~(1 <= selection[1] /\ selection[1] <= Len(s.draft)) THEN s
    ELSE IF result = None THEN s
    ELSE [s EXCEPT !.draft[selection[1]] = result[1]]

\* remove_signer_entry()
RemoveSignerEntry(s, selection) ==
    IF selection = None THEN s
    ELSE IF 1 <= selection[1] /\ selection[1] <= Len(s.draft)
    THEN [s EXCEPT !.draft = [i \in 1..(Len(@) - 1) |->
                                 IF i < selection[1] THEN @[i] ELSE @[i + 1]]]
    ELSE s

\* clear_signer_entries(): yes is the answer to "Remove all draft signers?".
ClearSignerEntries(s, yes) ==
    IF s.draft = <<>> THEN s
    ELSE IF yes THEN [s EXCEPT !.draft = <<>>]
    ELSE s

\* Mutant: the quorum is not compared with the number of signers.
apply_signer_list_any_quorum(s, m, signing, submission, reachable) ==
    LET manager == GetActiveManager(m)
        quorum == QuorumInt(s.quorum)
        out == SignerOut(s, "apply_signer_list", "")
    IN  IF NoWallet(manager) \/ s.draft = <<>> \/ quorum = None
        THEN [s EXCEPT !.out = [out EXCEPT !.msg = "refused"]]
        ELSE IF quorum[1] <= 0
        THEN [s EXCEPT !.out = [out EXCEPT !.msg =
                 "Quorum must be between 1 and the number of signers"]]
        ELSE [s EXCEPT !.out = [out EXCEPT !.msg = "handed over",
                 !.submitted = Some([signers |-> SignerPayload(s.draft),
                                     quorum |-> quorum[1]])]]

\* apply_signer_list(): signing and submission tell how
\* create_multisig_wallet ends; a validated transaction has replaced the
\* signer list of the account when refresh_multisig_status reads it.
apply_signer_list(s, m, signing, submission, reachable) ==
    LET manager == GetActiveManager(m)
        quorum == QuorumInt(s.quorum)
        out == SignerOut(s, "apply_signer_list", "")
        payload == SignerPayload(s.draft)
        result == CreateMultisigWallet(manager[1], signing, submission)
        handed == [out EXCEPT !.submitted =
                      IF \E i \in DOMAIN result.requests :
                            result.requests[i] = "submit"
                      THEN Some([signers |-> payload, quorum |-> quorum[1]])
                      ELSE None]
    IN  IF NoWallet(manager)
        THEN [s EXCEPT !.out = [out EXCEPT !.msg = "Select a wallet first"]]
        ELSE IF s.draft = <<>>
        THEN [s EXCEPT !.out = [out EXCEPT !.msg = "Add at least one signer"]]
        ELSE IF quorum = None
        THEN [s EXCEPT !.out = [out EXCEPT !.msg =
                 "Quorum must be a positive number"]]
        ELSE IF quorum[1] <= 0 \/ quorum[1] > Len(s.draft)
        THEN [s EXCEPT !.out = [out EXCEPT !.msg =
                 "Quorum must be between 1 and the number of signers"]]
        ELSE IF result.kind = "value"
        THEN RefreshSignerDraft(
                 [s EXCEPT !.out = [handed EXCEPT !.msg =
                                       "Signer list transaction submitted"],
                           !.onledger = [enabled |-> TRUE,
                                         quorum |-> quorum[1],
                                         signers |-> payload]],
                 m, reachable)
        ELSE [s EXCEPT !.out = [handed EXCEPT !.msg =
                                   "Failed to submit signer list"]]

\* select_wallet("alice") on the welcome screen has opened the workspace:
\* the Multi-Sig tab as create_multisig_tab leaves it (gui.py 493, 1356)
\* before its first refresh_multisig_status.
SelectedWallet(name) ==
    SetActiveWallet(Unlocked(TwoWalletsDir), name, TRUE, "salt1", "nonce1").w

SignersInit ==
    /\ mw = SelectedWallet("alice").mw
    /\ fs = SelectedWallet("alice").fs
    /\ environ = SelectedWallet("alice").env
    /\ last = NoCall
    /\ faults = 0
    /\ gate = GatePassed
    /\ envl = EnvlIdle /\ ms = MsIdle /\ send = SendIdle /\ ledger = LedgerIdle
    /\ calls = Off /\ tools = Off /\ tags = Off /\ recv = Off
    /\ links = Off /\ dec = Off /\ ui = Off /\ wk = Off /\ dlg = Off
    /\ wsp = Off
    /\ signers \in {[onledger |-> list, status |-> NotEnabled, draft |-> <<>>,
                     quorum |-> "2", out |-> NoSignerOut] :
                        list \in {NotEnabled, ListEqual}}

SignersStep(s) ==
    /\ signers' = s
    /\ UNCHANGED <<Base, links, dec, ui, wk, dlg, wsp>>

\* "Refresh" on the Multi-Sig tab.
SgRefreshMultisigStatus ==
    \E reachable \in BOOLEAN :
        SignersStep([RefreshSignerDraft(signers, mw, reachable)
                        EXCEPT !.out = NoSignerOut])

\* The user types into the quorum spin box.
SgTypeQuorum ==
    \E text \in QuorumTexts \ {signers.quorum} :
        SignersStep([signers EXCEPT !.quorum = text,
                                    !.out = NoSignerOut])

SgAddSignerEntry ==
    /\ Len(signers.draft) < MaxSigners
    /\ \E result \in SignerDialogResults :
        SignersStep([AddSignerEntry(signers, result)
                        EXCEPT !.out = NoSignerOut])

SgEditSignerEntry ==
    \E selection \in {None} \cup {Some(i) : i \in 1..Len(signers.draft)},
       result \in SignerDialogResults :
        SignersStep([EditSignerEntry(signers, selection, result)
                        EXCEPT !.out = NoSignerOut])

SgRemoveSignerEntry ==
    \E selection \in {None} \cup {Some(i) : i \in 1..Len(signers.draft)} :
        SignersStep([RemoveSignerEntry(signers, selection)
                        EXCEPT !.out = NoSignerOut])

SgClearSignerEntries ==
    \E yes \in BOOLEAN :
        SignersStep([ClearSignerEntries(signers, yes)
                        EXCEPT !.out = NoSignerOut])

SgApplySignerList ==
    \E signing \in {"ok", "raises"}, submission \in Responses,
       reachable \in BOOLEAN :
        SignersStep(apply_signer_list(signers, mw, signing, submission,
                                    reachable))

SignersNext ==
    \/ SgRefreshMultisigStatus
    \/ SgTypeQuorum
    \/ SgAddSignerEntry
    \/ SgEditSignerEntry
    \/ SgRemoveSignerEntry
    \/ SgClearSignerEntries
    \/ SgApplySignerList

SpecSigners == SignersInit /\ [][SignersNext]_vars

\* C38: when apply_signer_list has handed a signer list to the ledger, the
\* draft it found held at least one signer, every weight in it was a
\* positive integer and the quorum q it read satisfied 1 <= q <= number of
\* draft signers, hence q did not exceed the summed weight of the signers
\* submitted; when it has handed nothing over, the draft is as it found it.
C38_SubmitsOnlyValidLists ==
    signers.out.op = "apply_signer_list" =>
        IF signers.out.submitted # None
        THEN LET draft == signers.out.draft
                 sent == signers.out.submitted[1]
             IN  /\ Len(draft) >= 1
                 /\ \A i \in 1..Len(draft) : draft[i].weight \in Nat \ {0}
                 /\ QuorumInt(signers.out.quorum) = Some(sent.quorum)
                 /\ 1 <= sent.quorum /\ sent.quorum <= Len(draft)
                 /\ sent.signers = SignerPayload(draft)
                 /\ sent.quorum <= SumWeights(sent.signers)
        ELSE signers.draft = signers.out.draft

\* C38 witness: apply_signer_list has submitted a draft of two signers with
\* quorum 2, the first entered by the user with weight 7.
C38_Witness ==
    /\ signers.out.op = "apply_signer_list"
    /\ signers.out.submitted # None
    /\ signers.out.submitted[1].quorum = 2
    /\ Len(signers.out.draft) = 2
    /\ signers.out.draft[1].label = "Signer"
    /\ signers.out.draft[1].weight = 7

\* C32: whenever sign_as_active_wallet hands the session's transaction to
\* sign_multisig_transaction, or submit_multisig_transaction_action hands
\* its signatures to submit_multisig_transaction, the active wallet is the
\* one whose address is the Account of the session's transaction.
C32_SessionUsedByItsAccount ==
    [][(/\ ms.session # None
        /\ \/ MsSign /\ ms'.out.msg \in {"", "Failed to sign"}
           \/ MsSubmit /\ ms'.out.handed)
       => /\ ~NoWallet(GetActiveManager(mw))
          /\ GetActiveManager(mw)[1].wallet[1].address
               = ms.session[1].tx_json.Account]_vars

(***************************************************************************)
(* gui.py: the wallet workspace and the workers that fill it.  The store   *)
(* is unlocked and holds two wallets.  select_wallet rebuilds the          *)
(* workspace for the wallet chosen and refresh_wallet_info starts          *)
(* refresh_thread for it; "Back to Wallets" destroys the workspace and     *)
(* the wallet list starts balance_thread; update_receive_tab starts the QR *)
(* worker.  What the workers found reaches the display by callbacks taken  *)
(* from the UI queue.  The status bar, the balance line of the Send tab    *)
(* and the balance labels of the wallet list are not followed.             *)
(***************************************************************************)

\* The workers and callbacks followed at a time.
MaxInFlight == 2

\* The classic address of a wallet as the text the display shows, and the
\* balance the ledger reports for it.
AddressText(address) == IF address = AddrA THEN "rDest" ELSE "rMin"
BalanceText(address) == IF address = AddrA THEN "10" ELSE "20"

InFlight(s) ==
    Len(s.refreshers) + Len(s.balancers) + Len(s.threads) + Len(s.queue)

\* What a step leaves behind for the properties to read: the operation and
\* (ghost) the wallet the worker behind a callback was started for.
WorkspaceOut(op, name) == [op |-> op, name |-> name]

\* update_receive_tab(address) while the workspace is destroyed: configure
\* on the destroyed label raises TclError, which ends the caller.
update_receive_tab_destroyed(s, address) ==
    IF ~s.built THEN s
    ELSE IF address = None \/ address[1] \notin StartsWithR
    THEN [s EXCEPT !.address_var = "Select a wallet to view address",
                   !.status = ""]
    ELSE IF address = s.last_address /\ address[1] \in s.cache
    THEN [s EXCEPT !.address_var = address[1], !.qr_image = address]
    ELSE [s EXCEPT !.address_var = address[1], !.last_address = address,
                   !.status = "Fetching QR code..."]

update_receive_tab(s, address) ==
    IF s.screen = "workspace" THEN UpdateReceiveTab(s, address)
    ELSE update_receive_tab_destroyed(s, address)

\* refresh_wallet_info(): with a manager, refresh_thread is started for it.
refresh_wallet_info(s, m) ==
    LET manager == GetActiveManager(m)
        active_record == m.wallets[m.active_wallet[1]]
    IN  IF NoWallet(manager)
        THEN IF m.active_wallet # None
                /\ m.active_wallet[1] \in DOMAIN m.wallets
             THEN update_receive_tab(
                      [s EXCEPT !.wallet_address =
                                    AddressText(active_record.address),
                                !.balance_var = active_record.balance],
                      Some(AddressText(active_record.address)))
             ELSE update_receive_tab(
                      [s EXCEPT !.wallet_address = "No wallet selected",
                                !.balance_var = "N/A"], None)
        ELSE [s EXCEPT !.refreshers =
                 Append(@, [name |-> m.active_wallet[1],
                            address |-> manager[1].wallet[1].address])]

\* open_wallet_interface(): the widgets of the workspace are built anew,
\* then refresh_wallet_info runs.
open_wallet_interface(s, m) ==
    refresh_wallet_info(
        [s EXCEPT !.screen = "workspace", !.built = TRUE,
                  !.wallet_address = "", !.balance_var = "",
                  !.address_var = "Select a wallet to view address",
                  !.label = None, !.status = ""], m)

\* setup_welcome_screen(): the workspace is destroyed; refresh_wallet_list
\* ends with update_wallet_balances, whose worker is followed while there
\* is room.
setup_welcome_screen(s, m) ==
    [s EXCEPT !.screen = "welcome",
              !.balancers = IF InFlight(s) < MaxInFlight /\ DOMAIN m.wallets # {}
                            THEN Append(@, [todo |-> <<"alice", "bob">>])
                            ELSE @]

\* refresh_thread, up to run_on_ui_thread(apply_updates): ok tells whether
\* the requests succeed.
refresh_thread(s, i, ok) ==
    [s EXCEPT !.refreshers = [k \in 1..(Len(@) - 1) |->
                                 IF k < i THEN @[k] ELSE @[k + 1]],
              !.queue = Append(@,
                  [kind |-> "apply_updates", name |-> s.refreshers[i].name,
                   address |-> IF ok
                               THEN Some(AddressText(s.refreshers[i].address))
                               ELSE None,
                   balance |-> IF ok
                               THEN Some(BalanceText(s.refreshers[i].address))
                               ELSE None])]

\* apply_updates(): in a destroyed workspace update_text_widget raises
\* TclError before update_receive_tab is reached.
apply_updates(s, callback) ==
    LET address_value == IF callback.address # None /\ callback.address[1] # ""
                         THEN callback.address[1] ELSE s.wallet_address
        balance == IF callback.balance # None THEN callback.balance[1]
                   ELSE "Error"
        s1 == [s EXCEPT !.wallet_address = address_value,
                        !.balance_var = balance]
    IN  IF s.screen = "welcome" THEN s1
        ELSE UpdateReceiveTab(s1, IF address_value # "No wallet selected"
                                  THEN Some(address_value) ELSE None)

\* balance_thread: one turn of its loop, for the wallet `name`: [mw, s].
balance_thread(s, m, i) ==
    LET name == Head(s.balancers[i].todo)
        address == m.wallet_managers[name].wallet[1].address
        left == Tail(s.balancers[i].todo)
    IN  [mw |-> [m EXCEPT !.wallets[name].balance = BalanceText(address)],
         s |-> [s EXCEPT
                  !.balancers = IF left # <<>>
                                THEN [@ EXCEPT ![i].todo = left]
                                ELSE [k \in 1..(Len(@) - 1) |->
                                         IF k < i THEN @[k] ELSE @[k + 1]],
                  !.queue = Append(@, [kind |-> "balance", name |-> name,
                                       address |-> AddressText(address),
                                       balance |-> BalanceText(address)])]]

\* apply() of balance_thread
balance_apply(s, m, callback) ==
    IF m.active_wallet = Some(callback.name)
       /\ callback.name \in DOMAIN m.wallets /\ s.built
    THEN update_receive_tab(s, Some(callback.address))
    ELSE s

\* apply() of the QR worker while the workspace is destroyed.
qr_apply_destroyed(s, callback) ==
    IF callback.kind = "error" THEN [s EXCEPT !.status = "QR error"]
    ELSE IF callback.image # None
    THEN [s EXCEPT !.cache = @ \cup {callback.address},
                   !.qr_image = callback.image]
    ELSE [s EXCEPT !.status = "QR unavailable"]

\* One callback as _process_ui_queue runs it.
WorkspaceCallback(s, m, callback) ==
    CASE callback.kind = "apply_updates" -> apply_updates(s, callback)
      [] callback.kind = "balance" -> balance_apply(s, m, callback)
      [] OTHER -> IF s.screen = "workspace" THEN RunCallback(s, callback)
                  ELSE qr_apply_destroyed(s, callback)

\* ModernXRPWalletGUI.__init__ (gui.py 489-498) once the gate has passed:
\* the welcome screen, and the balance worker its wallet list started.
WorkspaceInit ==
    /\ mw = Unlocked(TwoWalletsDir).mw
    /\ fs = TwoWalletsDir
    /\ environ = Unlocked(TwoWalletsDir).env
    /\ last = NoCall
    /\ faults = 0
    /\ gate = GatePassed
    /\ envl = EnvlIdle /\ ms = MsIdle /\ send = SendIdle /\ ledger = LedgerIdle
    /\ calls = Off /\ tools = Off /\ tags = Off /\ recv = Off
    /\ links = Off /\ dec = Off /\ ui = Off /\ wk = Off /\ dlg = Off
    /\ signers = Off
    /\ wsp = [screen |-> "welcome", built |-> FALSE, cache |-> {},
              qr_image |-> None, last_address |-> None, label |-> None,
              bar |-> "", address_var |-> "", status |-> "",
              wallet_address |-> "", balance_var |-> "", threads |-> <<>>, queue |-> <<>>,
              refreshers |-> <<>>,
              balancers |-> <<[todo |-> <<"alice", "bob">>]>>,
              out |-> WorkspaceOut("", "")]

OtherThanWorkspace ==
    <<faults, gate, envl, ms, send, ledger, calls, tools, tags, recv,
      links, dec, ui, wk, dlg, signers>>
WorkspaceStep(s, op, name) ==
    /\ wsp' = [s EXCEPT !.out = IF op \in {"apply_updates", "balance"}
                                THEN WorkspaceOut(op, name)
                                ELSE WorkspaceOut("", "")]
    /\ UNCHANGED OtherThanWorkspace

\* select_wallet(name) on the welcome screen
WsSelectWallet ==
    /\ wsp.screen = "welcome"
    /\ InFlight(wsp) < MaxInFlight
    /\ \E name \in DOMAIN mw.wallets, in \in Inputs :
        LET r == SetActiveWallet(TheWorld, name, in[1], in[2], in[3])
        IN  /\ mw' = r.w.mw /\ fs' = r.w.fs /\ environ' = r.w.env
            /\ last' = [ret |-> r.ret, why |-> r.why]
            /\ WorkspaceStep(IF r.ret = "True"
                             THEN open_wallet_interface(wsp, r.w.mw)
                             ELSE wsp, "select_wallet", name)

\* "Back to Wallets"
WsSetupWelcomeScreen ==
    /\ wsp.screen = "workspace"
    /\ WorkspaceStep(setup_welcome_screen(wsp, mw), "setup_welcome_screen", "")
    /\ UNCHANGED <<mw, fs, environ, last>>

\* refresh_thread: here its requests succeed.
WsRefreshThread ==
    /\ \E i \in DOMAIN wsp.refreshers :
        WorkspaceStep(refresh_thread(wsp, i, TRUE), "refresh_thread",
                      wsp.refreshers[i].name)
    /\ UNCHANGED <<mw, fs, environ, last>>

WsBalanceThread ==
    /\ \E i \in DOMAIN wsp.balancers :
        /\ mw' = balance_thread(wsp, mw, i).mw
        /\ WorkspaceStep(balance_thread(wsp, mw, i).s, "balance_thread",
                         Head(wsp.balancers[i].todo))
    /\ UNCHANGED <<fs, environ, last>>

\* The QR worker: here the provider answers with an image.
WsFetchQrImage ==
    /\ \E i \in DOMAIN wsp.threads :
        /\ wsp.threads[i].pc = "fetch"
        /\ WorkspaceStep(FetchQrImage(wsp, i, TRUE), "_fetch_qr_image", "")
    /\ UNCHANGED <<mw, fs, environ, last>>

WsPutApply ==
    /\ \E i \in DOMAIN wsp.threads :
        /\ wsp.threads[i].pc = "fetched"
        /\ WorkspaceStep(PutApply(wsp, i), "worker", "")
    /\ UNCHANGED <<mw, fs, environ, last>>

WsProcessUiQueue ==
    /\ wsp.queue # <<>>
    /\ LET callback == Head(wsp.queue)
       IN  WorkspaceStep(
               WorkspaceCallback([wsp EXCEPT !.queue = Tail(@)], mw, callback),
               callback.kind,
               IF callback.kind \in {"apply_updates", "balance"}
               THEN callback.name ELSE "")
    /\ UNCHANGED <<mw, fs, environ, last>>

WorkspaceNext ==
    \/ WsSelectWallet
    \/ WsSetupWelcomeScreen
    \/ WsRefreshThread
    \/ WsBalanceThread
    \/ WsFetchQrImage
    \/ WsPutApply
    \/ WsProcessUiQueue

SpecWorkspace == WorkspaceInit /\ [][WorkspaceNext]_vars

\* C31: while the workspace of the active wallet is open, a callback of a
\* worker that was started for another wallet leaves the displayed address,
\* the displayed balance and the address of the Receive tab as they were,
\* and whenever the Receive tab shows a QR image that image was fetched for
\* the address the tab shows.
C31_StaleResultsDiscarded ==
    [][/\ (/\ wsp.screen = "workspace"
           /\ wsp'.out.op \in {"apply_updates", "balance"}
           /\ Some(wsp'.out.name) # mw.active_wallet)
          => /\ wsp'.wallet_address = wsp.wallet_address
             /\ wsp'.balance_var = wsp.balance_var
             /\ wsp'.address_var = wsp.address_var
       /\ (wsp'.screen = "workspace" /\ wsp'.label # None)
          => wsp'.label = Some(wsp'.address_var)]_vars

====
